---- MODULE Spec2Model ----
(***************************************************************************)
(* A model of the on-chain artifact decoder of fiber-nodes-monit           *)
(* (src/src/lib/ckb.ts): the transaction message builder getTxMessage and  *)
(* the channel death tracer getLnTxTrace, with the integer and witness     *)
(* codecs they call.                                                       *)
(*                                                                         *)
(* JavaScript strings are sequences of character codes: 0..15 are the hex  *)
(* digits, CharX is 'x', CharZ is a character that is no hex digit.        *)
(* A JavaScript bigint is a sign and a magnitude, the magnitude a          *)
(* little-endian sequence of base-16 digits without leading zeros, so that *)
(* 64-bit and 128-bit (and wider) values are exact.                        *)
(***************************************************************************)
EXTENDS Integers, Sequences, FiniteSets, TLC

(***************************************************************************)
(* Characters and strings                                                  *)
(***************************************************************************)
CharX == 16
CharZ == 17
HexDigits == 0..15

\* the literal '0x'
Str0x == <<0, CharX>>
\* the literal 'N/A' (three characters that are no hex digits)
StrNA == <<18, 19, 20>>

\* an optional value: undefined / null is None
None == <<>>
Some(v) == <<v>>
IsSome(o) == o # <<>>
The(o) == o[1]

Min(a, b) == IF a < b THEN a ELSE b
Max(a, b) == IF a < b THEN b ELSE a

\* String.prototype.substring(a, b) and substring(a), for 0 <= a <= b
Substring(s, a, b) == SubSeq(s, Min(a, Len(s)) + 1, Min(b, Len(s)))
SubstringFrom(s, a) == SubSeq(s, Min(a, Len(s)) + 1, Len(s))

\* hex.startsWith('0x') ? hex.substring(2) : hex
StartsWith0x(s) == Len(s) >= 2 /\ s[1] = 0 /\ s[2] = CharX
Strip0x(s) == IF StartsWith0x(s) THEN SubstringFrom(s, 2) ELSE s

Reverse(s) == [i \in 1..Len(s) |-> s[Len(s) + 1 - i]]

(***************************************************************************)
(* bigint: natural numbers as little-endian digit sequences                *)
(***************************************************************************)
RECURSIVE Norm(_)
Norm(d) ==
  IF d = <<>> THEN <<>>
  ELSE IF d[Len(d)] = 0 THEN Norm(SubSeq(d, 1, Len(d) - 1)) ELSE d

RestOf(d) == IF d = <<>> THEN <<>> ELSE Tail(d)
FirstOf(d) == IF d = <<>> THEN 0 ELSE Head(d)

RECURSIVE NatAddC(_, _, _)
NatAddC(a, b, c) ==
  IF a = <<>> /\ b = <<>> THEN (IF c = 0 THEN <<>> ELSE <<c>>)
  ELSE LET s == FirstOf(a) + FirstOf(b) + c
       IN  <<s % 16>> \o NatAddC(RestOf(a), RestOf(b), s \div 16)
NatAdd(a, b) == NatAddC(a, b, 0)

\* a < b, both normalised
RECURSIVE NatLessSameLen(_, _)
NatLessSameLen(a, b) ==
  IF a = <<>> THEN FALSE
  ELSE IF a[Len(a)] # b[Len(b)] THEN a[Len(a)] < b[Len(b)]
  ELSE NatLessSameLen(SubSeq(a, 1, Len(a) - 1), SubSeq(b, 1, Len(b) - 1))
NatLess(a, b) ==
  IF Len(a) # Len(b) THEN Len(a) < Len(b) ELSE NatLessSameLen(a, b)

\* a - b for a >= b
RECURSIVE NatSubB(_, _, _)
NatSubB(a, b, w) ==
  IF a = <<>> THEN <<>>
  ELSE LET s == FirstOf(a) - FirstOf(b) - w
       IN  <<(s + 16) % 16>> \o NatSubB(RestOf(a), RestOf(b), IF s < 0 THEN 1 ELSE 0)
NatSub(a, b) == Norm(NatSubB(a, b, 0))

\* a * k for a small factor k
RECURSIVE NatMulC(_, _, _)
NatMulC(a, k, c) ==
  IF a = <<>> THEN (IF c = 0 THEN <<>> ELSE <<c % 16>> \o NatMulC(<<>>, k, c \div 16))
  ELSE LET s == Head(a) * k + c
       IN  <<s % 16>> \o NatMulC(Tail(a), k, s \div 16)
NatMul(a, k) == Norm(NatMulC(a, k, 0))

\* a & ((1 << 4n) - 1) and a >> 4n, on whole digits
NatMaskDigits(a, n) == Norm(SubSeq(a, 1, Min(n, Len(a))))
NatShiftDigits(a, n) == SubSeq(a, Min(n, Len(a)) + 1, Len(a))

\* the magnitude of a number small enough for TLC's integers
RECURSIVE NatToInt(_)
NatToInt(a) == IF a = <<>> THEN 0 ELSE Head(a) + 16 * NatToInt(Tail(a))
RECURSIVE NatOfInt(_)
NatOfInt(n) == IF n = 0 THEN <<>> ELSE <<n % 16>> \o NatOfInt(n \div 16)

(***************************************************************************)
(* bigint: signed values                                                   *)
(***************************************************************************)
Big(neg, mag) == [neg |-> neg /\ mag # <<>>, mag |-> mag]
BigZero == Big(FALSE, <<>>)
BigOfInt(n) == IF n < 0 THEN Big(TRUE, NatOfInt(0 - n)) ELSE Big(FALSE, NatOfInt(n))
BigToInt(x) == IF x.neg THEN 0 - NatToInt(x.mag) ELSE NatToInt(x.mag)
BigNeg(x) == Big(~x.neg, x.mag)
BigAdd(x, y) ==
  IF x.neg = y.neg THEN Big(x.neg, NatAdd(x.mag, y.mag))
  ELSE IF NatLess(x.mag, y.mag) THEN Big(y.neg, NatSub(y.mag, x.mag))
  ELSE Big(x.neg, NatSub(x.mag, y.mag))
BigSub(x, y) == BigAdd(x, BigNeg(y))
BigIsZero(x) == x.mag = <<>>

\* BigInt('0x' + digits): a SyntaxError unless digits is a non-empty run of hex digits
HexValid(digits) == digits # <<>> /\ \A i \in 1..Len(digits) : digits[i] \in HexDigits
BigIntHex(digits) == Big(FALSE, Norm(Reverse(digits)))

(***************************************************************************)
(* Exceptions: a call either throws or returns a value                     *)
(***************************************************************************)
Thrown(msg) == [threw |-> TRUE, val |-> msg]
Ok(v) == [threw |-> FALSE, val |-> v]
\* r, and F of its value unless r threw
Then(r, F(_)) == IF r.threw THEN r ELSE F(r.val)

(***************************************************************************)
(* IntegerCodec                                                            *)
(***************************************************************************)
\* parseInt(s, 16): the value of the longest run of hex digits after an
\* optional 0x, NaN when there is none
NaN == -1
RECURSIVE HexRun(_)
HexRun(s) ==
  IF s = <<>> \/ Head(s) \notin HexDigits THEN <<>> ELSE <<Head(s)>> \o HexRun(Tail(s))
parseInt16(s) ==
  LET run == HexRun(Strip0x(s))
  IN  IF run = <<>> THEN NaN ELSE NatToInt(Norm(Reverse(run)))

\* BigInt(s) of a string: '0x' and hex digits, or decimal digits ('' is 0n)
RECURSIVE DecimalNat(_, _)
DecimalNat(s, acc) ==
  IF s = <<>> THEN acc
  ELSE DecimalNat(Tail(s), NatAdd(NatMul(acc, 10), NatOfInt(Head(s))))
BigIntOfString(s) ==
  IF StartsWith0x(s)
  THEN IF HexValid(Strip0x(s)) THEN Ok(BigIntHex(Strip0x(s))) ELSE Thrown("SyntaxError")
  ELSE IF \A i \in 1..Len(s) : s[i] \in 0..9
       THEN Ok(Big(FALSE, DecimalNat(s, <<>>)))
       ELSE Thrown("SyntaxError")

\* bytes.reverse().join('') of the two-character pieces of hex
\* (the pieces are reversed half by half: the first half of them, an even number of
\* characters, goes behind the rest)
HalfOf(hex) == 2 * ((Len(hex) \div 2 + 1) \div 2)
RECURSIVE ReverseBytes(_)
ReverseBytes(hex) ==
  IF Len(hex) <= 2 THEN hex
  ELSE ReverseBytes(SubstringFrom(hex, HalfOf(hex))) \o ReverseBytes(Substring(hex, 0, HalfOf(hex)))

\* BigInt('0x' + joined)
BigIntOfHex(joined) == IF HexValid(joined) THEN Ok(BigIntHex(joined)) ELSE Thrown("SyntaxError")

\* variant of littleEndianHexToBigInt that pads an odd-length string behind
littleEndianHexToBigInt_PadBehind(hex) ==
  BigIntOfHex(ReverseBytes(IF Len(hex) % 2 # 0 THEN hex \o <<0>> ELSE hex))

littleEndianHexToBigInt(hex) ==
  BigIntOfHex(ReverseBytes(IF Len(hex) % 2 # 0 THEN <<0>> \o hex ELSE hex))

toIntFromBigUint128Le(hexStr) == BigIntOfHex(ReverseBytes(Strip0x(hexStr)))

\* parseEpoch: the shifts and masks fall on digit boundaries, 24 bits are 6 digits
\* and 16 bits are 4
\* variant of parseEpoch that does not mask the length
parseEpoch_LengthUnmasked(epoch) ==
  [number |-> Big(FALSE, NatMaskDigits(epoch.mag, 6)),
   index |-> Big(FALSE, NatMaskDigits(NatShiftDigits(epoch.mag, 6), 4)),
   length |-> Big(FALSE, NatShiftDigits(epoch.mag, 10)),
   value |-> epoch]

parseEpoch(epoch) ==
  [number |-> Big(FALSE, NatMaskDigits(epoch.mag, 6)),
   index |-> Big(FALSE, NatMaskDigits(NatShiftDigits(epoch.mag, 6), 4)),
   length |-> Big(FALSE, NatMaskDigits(NatShiftDigits(epoch.mag, 10), 4)),
   value |-> epoch]

(***************************************************************************)
(* LockArgsCodec: a field the result does not have is None                 *)
(***************************************************************************)
ParsedLockArgs(pubkeyHash, delayEpoch, version, htlcs, settlementHash, settlementFlag) ==
  [pubkey_hash |-> Str0x \o pubkeyHash,
   delay_epoch |-> parseEpoch(delayEpoch),
   version |-> version,
   htlcs |-> htlcs,
   settlement_hash |-> settlementHash,
   settlement_flag |-> settlementFlag]

\* htlcs ? `0x${htlcs}` : ''
PrefixedOrEmpty(str) == IF str # <<>> THEN Str0x \o str ELSE <<>>

ParseLockArgsData(data) ==
  Then(littleEndianHexToBigInt(Substring(data, 40, 56)), LAMBDA delayEpoch :
  Then(littleEndianHexToBigInt(Substring(data, 56, 72)), LAMBDA version :
    Ok(ParsedLockArgs(Substring(data, 0, 40), delayEpoch, version,
                      Some(PrefixedOrEmpty(SubstringFrom(data, 72))), None, None))))
parseLockArgs(hex) == ParseLockArgsData(Strip0x(hex))

\* settlementFlagHex ? parseInt(settlementFlagHex, 16) : undefined, kept unless NaN
SettlementFlag(settlementFlagHex) ==
  IF settlementFlagHex = <<>> \/ parseInt16(settlementFlagHex) = NaN THEN None
  ELSE Some(parseInt16(settlementFlagHex))

ParseLockArgsV2Data(data) ==
  Then(littleEndianHexToBigInt(Substring(data, 40, 56)), LAMBDA delayEpoch :
  Then(BigIntOfHex(Substring(data, 56, 72)), LAMBDA version :
    Ok(ParsedLockArgs(Substring(data, 0, 40), delayEpoch, version, None,
                      Some(PrefixedOrEmpty(Substring(data, 72, 112))),
                      SettlementFlag(Substring(data, 112, 114))))))
parseLockArgsV2(hex) == ParseLockArgsV2Data(Strip0x(hex))

(***************************************************************************)
(* WitnessCodec                                                            *)
(***************************************************************************)
ParsedWitness(ewa, ut, uc, rev, nph, ph, st, err) ==
  [empty_witness_args |-> ewa, unlock_type |-> ut, unlock_count |-> uc,
   revocation |-> rev, non_pending_htlc |-> nph, pending_htlc |-> ph,
   settlement |-> st, error |-> err]

\* the revocation payload at offset, the same in both decoders
Revocation(data, offset) ==
  IF ~HexValid(Substring(data, offset, offset + 16)) THEN Thrown("SyntaxError")
  ELSE Ok([version |-> BigIntHex(Substring(data, offset, offset + 16)),
           pubkey |-> Str0x \o Substring(data, offset + 16, offset + 16 + 64),
           signature |-> Str0x \o SubstringFrom(data, offset + 16 + 64)])

\* variant of ParseHtlc that keeps the bits 56..63 of the expiry
ParseHtlc_NoMask(data, offset) ==
  Then(littleEndianHexToBigInt(Substring(data, offset + 2, offset + 34)), LAMBDA amount :
  Then(littleEndianHexToBigInt(Substring(data, offset + 154, offset + 170)), LAMBDA expiry :
    Ok([htlc_type |-> parseInt16(Substring(data, offset, offset + 2)),
        payment_amount |-> amount,
        payment_hash |-> Str0x \o Substring(data, offset + 34, offset + 74),
        remote_htlc_pubkey_hash |-> Str0x \o Substring(data, offset + 74, offset + 114),
        local_htlc_pubkey_hash |-> Str0x \o Substring(data, offset + 114, offset + 154),
        htlc_expiry_timestamp |-> Big(FALSE, NatMul(expiry.mag, 1000))])))

\* one pass of the HTLC loop body at offset
ParseHtlc(data, offset) ==
  Then(littleEndianHexToBigInt(Substring(data, offset + 2, offset + 34)), LAMBDA amount :
  Then(littleEndianHexToBigInt(Substring(data, offset + 154, offset + 170)), LAMBDA expiry :
    Ok([htlc_type |-> parseInt16(Substring(data, offset, offset + 2)),
        payment_amount |-> amount,
        payment_hash |-> Str0x \o Substring(data, offset + 34, offset + 74),
        remote_htlc_pubkey_hash |-> Str0x \o Substring(data, offset + 74, offset + 114),
        local_htlc_pubkey_hash |-> Str0x \o Substring(data, offset + 114, offset + 154),
        htlc_expiry_timestamp |-> Big(FALSE, NatMul(NatMaskDigits(expiry.mag, 14), 1000))])))

\* for (let i = 0; i < pendingHtlcCount; i++): the entries and the offset reached
RECURSIVE ParseHtlcs(_, _, _, _, _)
ParseHtlcs(data, offset, count, i, htlcs) ==
  IF ~(i < count) THEN Ok([htlcs |-> htlcs, offset |-> offset])
  ELSE Then(ParseHtlc(data, offset), LAMBDA h :
         ParseHtlcs(data, offset + 170, count, i + 1, Append(htlcs, h)))

PendingHtlc(data, count, htlcs, offset) ==
  [pending_htlc_count |-> count,
   htlcs |-> htlcs,
   signature |-> Str0x \o Substring(data, offset, offset + 130),
   preimage |-> IF Len(data) > offset + 130
                THEN Str0x \o Substring(data, offset + 130, offset + 194)
                ELSE StrNA]

\* variant of ParseWitnessData that takes 0xFE for a revocation as well
ParseWitnessData_FeIsRevocation(data, unlockType, base) ==
  IF unlockType = 255 \/ unlockType = 254
  THEN Then(Revocation(data, 34), LAMBDA r : Ok([base EXCEPT !.revocation = Some(r)]))
  ELSE Then(ParseHtlcs(data, 36, parseInt16(Substring(data, 34, 36)), 0, <<>>), LAMBDA l :
         Ok([base EXCEPT !.pending_htlc =
               Some(PendingHtlc(data, parseInt16(Substring(data, 34, 36)), l.htlcs, l.offset))]))

ParseWitnessData(data, unlockType, base) ==
  IF unlockType = 255
  THEN Then(Revocation(data, 34), LAMBDA r : Ok([base EXCEPT !.revocation = Some(r)]))
  ELSE IF unlockType = 254
  THEN Ok([base EXCEPT !.non_pending_htlc =
             Some([pubkey |-> Str0x \o Substring(data, 34, 34 + 64),
                   signature |-> Str0x \o SubstringFrom(data, 34 + 64)])])
  ELSE Then(ParseHtlcs(data, 36, parseInt16(Substring(data, 34, 36)), 0, <<>>), LAMBDA l :
         Ok([base EXCEPT !.pending_htlc =
               Some(PendingHtlc(data, parseInt16(Substring(data, 34, 36)), l.htlcs, l.offset))]))

parseWitness(hex) ==
  ParseWitnessData(Strip0x(hex), parseInt16(Substring(Strip0x(hex), 32, 34)),
    ParsedWitness(Str0x \o Substring(Strip0x(hex), 0, 32),
                  Some(parseInt16(Substring(Strip0x(hex), 32, 34))),
                  None, None, None, None, None, None))

\* for (let i = 0; i < unlockCount; i++): the unlock entries
Unlock(data, offset, withPreimage) ==
  [unlock_type |-> parseInt16(Substring(data, offset, offset + 2)),
   with_preimage |-> withPreimage,
   signature |-> Str0x \o Substring(data, offset + 4, offset + 134),
   preimage |-> IF withPreimage = 1
                THEN Str0x \o Substring(data, offset + 134, offset + 198)
                ELSE StrNA]
\* variant of ParseUnlocks in which every entry takes 67 bytes, preimage or not
RECURSIVE ParseUnlocks_FixedStride(_, _, _, _, _)
ParseUnlocks_FixedStride(data, offset, count, i, unlocks) ==
  IF ~(i < count) THEN unlocks
  ELSE IF offset >= Len(data)
  THEN unlocks \o [k \in 1..(count - i) |-> Unlock(data, offset, NaN)]
  ELSE ParseUnlocks_FixedStride(data, offset + 134, count, i + 1,
         Append(unlocks, Unlock(data, offset, parseInt16(Substring(data, offset + 2, offset + 4)))))

\* (past the end of data every pass reads empty strings and makes the same entry)
RECURSIVE ParseUnlocks(_, _, _, _, _)
ParseUnlocks(data, offset, count, i, unlocks) ==
  IF ~(i < count) THEN unlocks
  ELSE IF offset >= Len(data)
  THEN unlocks \o [k \in 1..(count - i) |-> Unlock(data, offset, NaN)]
  ELSE ParseUnlocks(data,
         offset + (IF parseInt16(Substring(data, offset + 2, offset + 4)) = 1 THEN 198 ELSE 134),
         count, i + 1,
         Append(unlocks, Unlock(data, offset, parseInt16(Substring(data, offset + 2, offset + 4)))))

Settlement(data, unlockCount, count, htlcs, o) ==
  Then(littleEndianHexToBigInt(Substring(data, o + 40, o + 72)), LAMBDA ramt :
  Then(littleEndianHexToBigInt(Substring(data, o + 112, o + 144)), LAMBDA lamt :
    Ok([pending_htlc_count |-> count,
        htlcs |-> htlcs,
        settlement_remote_pubkey_hash |-> Str0x \o Substring(data, o, o + 40),
        settlement_remote_amount |-> ramt,
        settlement_local_pubkey_hash |-> Str0x \o Substring(data, o + 72, o + 112),
        settlement_local_amount |-> lamt,
        unlocks |-> ParseUnlocks(data, o + 144, unlockCount, 0, <<>>)])))

ParseWitnessV2Data(data, unlockCount, base) ==
  IF unlockCount = 0
  THEN Then(Revocation(data, 34), LAMBDA r : Ok([base EXCEPT !.revocation = Some(r)]))
  ELSE Then(ParseHtlcs(data, 36, parseInt16(Substring(data, 34, 36)), 0, <<>>), LAMBDA l :
       Then(Settlement(data, unlockCount, parseInt16(Substring(data, 34, 36)), l.htlcs, l.offset),
            LAMBDA st : Ok([base EXCEPT !.settlement = Some(st)])))

parseWitnessV2(hex) ==
  ParseWitnessV2Data(Strip0x(hex), parseInt16(Substring(Strip0x(hex), 32, 34)),
    ParsedWitness(Str0x \o Substring(Strip0x(hex), 0, 32), None,
                  Some(parseInt16(Substring(Strip0x(hex), 32, 34))),
                  None, None, None, None, None))

(***************************************************************************)
(* The chain the ChainQueryClient answers from                             *)
(*   chain.txs[h]      get_transaction: None (null) or Some(transaction)   *)
(*   chain.headers[b]  get_header: throws, or returns None or Some(header) *)
(*   chain.indexer[l]  get_transactions for lock script l: the tx hashes   *)
(***************************************************************************)
VARIABLES
  chain,          \* the ledger the RPC calls answer from (never changes)
  \* getTxMessage
  bpc,            \* "fetchTx", "inputs", "header", "done", "failed"
  txHash,         \* the transaction being built
  settled,        \* per input promise: "pending", "fulfilled", "rejected"
  inputCells,     \* per input promise: None or Some(cell)
  parsedWitness,  \* the closure variable parsedWitness: None is null
  settleOrder,    \* the inputs in the order their fetches completed
  built,          \* None, or Some(TxMessage) once the message is assembled
  \* getLnTxTrace
  tpc,            \* "start", "firstLookup", "firstBuild", "loopLookup", "loopBuild", "done", "failed"
  openChannelTxHash,
  txTrace,        \* the list of TraceItem
  currentTx,      \* the loop variable currentTx
  result,         \* the answer of the last getLnCellDeathHash
  steps,          \* the arguments onStep was called with, in order
  lookups,        \* the transactions getLnCellDeathHash was called for, in order
  \* the codecs and fetchAndParseTx, called on their own
  cop,            \* "ready", then the name of the function that was called
  cin,            \* the string the function is called with
  cout,           \* what the call threw or returned
  \* computeAccountBalance
  liveCells,      \* the parameter cells
  udtCfgInfos,    \* the registered UDT scripts with their names
  accountBalance, \* None, or Some(AccountBalance) once the function returned
  \* runWithConcurrency
  ppc,            \* "call" before the executor ran, then "running"
  items,
  concurrency,
  nextIndex,
  active,
  results,        \* per position: None (an empty slot) or Some(result)
  invocations,    \* per item, the promise fn returned: "notStarted", "inFlight", "fulfilled", "rejected"
  jobs,           \* the queue of promise reactions that are due, oldest first
  promise,        \* the returned promise: its state and its value or reason
  startCount,     \* per item, how often fn was called for it
  settlements,    \* the invocations that settled, in the order they settled
  \* refreshDetails
  selectedNode,   \* None or Some(node)
  details,        \* None (null) or Some(NodeDetails)
  detailsState,
  calls,          \* per node, the refreshDetails calls awaiting fetchNodeDetails
  pendingTimeout  \* None, or Some(node): the setTimeout(0) of the effect and the node of its closure

vars == <<chain, bpc, txHash, settled, inputCells, parsedWitness, settleOrder, built,
          tpc, openChannelTxHash, txTrace, currentTx, result, steps, lookups,
          cop, cin, cout,
          liveCells, udtCfgInfos, accountBalance,
          ppc, items, concurrency, nextIndex, active, results, invocations, jobs, promise,
          startCount, settlements,
          selectedNode, details, detailsState, calls, pendingTimeout>>
buildVars == <<bpc, txHash, settled, inputCells, parsedWitness, settleOrder, built>>
traceVars == <<tpc, openChannelTxHash, txTrace, currentTx, result, steps, lookups>>
codecVars == <<cop, cin, cout>>
balanceVars == <<liveCells, udtCfgInfos, accountBalance>>
poolVars == <<ppc, items, concurrency, nextIndex, active, results, invocations, jobs, promise,
              startCount, settlements>>
detailsVars == <<selectedNode, details, detailsState, calls, pendingTimeout>>
appVars == <<balanceVars, poolVars, detailsVars>>

MIN_LOCK_ARGS_HEX_LEN == 72
\* the code hash of the commitment lock of the network in use
commitmentCodeHash == "commitment"

getTransaction(h) == IF h \in DOMAIN chain.txs THEN chain.txs[h] ELSE None
getBlockHeader(b) == chain.headers[b]
getTransactions(lock) == IF lock \in DOMAIN chain.indexer THEN chain.indexer[lock] ELSE <<>>

\* array[i] for a 0-based index i: None is undefined
At(arr, i) == IF i >= 0 /\ i < Len(arr) THEN Some(arr[i + 1]) ELSE None

CellInfo(args, capacity, lock, udt_args, udt_capacity) ==
  [args |-> args, capacity |-> capacity, lock |-> lock,
   udt_args |-> udt_args, udt_capacity |-> udt_capacity]

ErrorWitness(msg) == ParsedWitness(<<>>, None, None, None, None, None, None, Some(msg))

\* variant of Caught that drops the exception without recording it
Caught_Swallow(r) == IF r.threw THEN None ELSE Some(r.val)

\* parsedWitness = parseWitness(witnessHex) or parseWitnessV2(witnessHex), under catch
Caught(r) == IF r.threw THEN Some(ErrorWitness(r.val)) ELSE Some(r.val)
\* variant of DecodeWitness that takes version 0 for version 1 as well
DecodeWitness_ZeroIsV1(witnessHex, v1) ==
  IF witnessHex = None THEN Thrown("TypeError")
  ELSE IF v1 = BigOfInt(1) \/ v1 = BigZero THEN parseWitness(The(witnessHex))
  ELSE parseWitnessV2(The(witnessHex))
DecodeWitness(witnessHex, v1) ==
  IF witnessHex = None THEN Thrown("TypeError")
  ELSE IF v1 = BigOfInt(1) THEN parseWitness(The(witnessHex))
  ELSE parseWitnessV2(The(witnessHex))

\* the try block of an input whose lock is the commitment lock: the new parsedWitness
DecodeChannelWitness(tx, index, lock) ==
  IF Len(Strip0x(lock.args)) >= MIN_LOCK_ARGS_HEX_LEN
  THEN Caught(Then(littleEndianHexToBigInt(Substring(Strip0x(lock.args), 56, 72)),
                   LAMBDA v1 : DecodeWitness(At(tx.witnesses, index), v1)))
  ELSE None

\* cell.udt_capacity of a cell with that type script and data (None: no udt fields)
UdtCapacity(type, data) ==
  IF type = None THEN Ok(None)
  ELSE IF data = None THEN Thrown("TypeError")
  ELSE Then(toIntFromBigUint128Le(The(data)), LAMBDA u : Ok(Some(u)))
UdtArgs(type) == IF type = None THEN None ELSE Some(The(type).args)

\* the body of one input promise after its getTransaction has answered, run with
\* the closure variable at pw: throws, or returns the cell and the new closure variable
InputFromOutput(tx, index, pw, prevOutput, prevOutputData) ==
  IF prevOutput = None THEN Thrown("TypeError")
  ELSE Then(BigIntOfString(The(prevOutput).capacity), LAMBDA cap :
       Then(UdtCapacity(The(prevOutput).type, prevOutputData), LAMBDA udt :
         Ok([cell |-> CellInfo(The(prevOutput).lock.args, cap, Some(The(prevOutput).lock),
                               UdtArgs(The(prevOutput).type), udt),
             pw |-> IF The(prevOutput).lock.code_hash = commitmentCodeHash /\ pw = None
                    THEN DecodeChannelWitness(tx, index, The(prevOutput).lock)
                    ELSE pw])))
\* variant of InputFromPrev that lets an unknown previous transaction pass as an
\* empty cell
InputFromPrev_NoCheck(tx, index, pw, prevTxData, outputIndex) ==
  IF prevTxData = None
  THEN Ok([cell |-> CellInfo(<<>>, BigZero, None, None, None), pw |-> pw])
  ELSE InputFromOutput(tx, index, pw, At(The(prevTxData).outputs, outputIndex),
                       At(The(prevTxData).outputs_data, outputIndex))

InputFromPrev(tx, index, pw, prevTxData, outputIndex) ==
  IF prevTxData = None THEN Thrown("Previous tx not found")
  ELSE InputFromOutput(tx, index, pw, At(The(prevTxData).outputs, outputIndex),
                       At(The(prevTxData).outputs_data, outputIndex))
InputStep(tx, index, pw) ==
  InputFromPrev(tx, index, pw,
                getTransaction(tx.inputs[index + 1].previous_output.tx_hash),
                parseInt16(tx.inputs[index + 1].previous_output.index))

\* tx.outputs.map(...): throws, or returns the output cells
OutputCell(tx, i) ==
  Then(BigIntOfString(tx.outputs[i + 1].capacity), LAMBDA cap :
  Then(UdtCapacity(tx.outputs[i + 1].type, At(tx.outputs_data, i)), LAMBDA udt :
    Ok(CellInfo(tx.outputs[i + 1].lock.args, cap, None, UdtArgs(tx.outputs[i + 1].type), udt))))

RECURSIVE OutputCells(_, _, _)
OutputCells(tx, i, cells) ==
  IF i >= Len(tx.outputs) THEN Ok(cells)
  ELSE Then(OutputCell(tx, i), LAMBDA c : OutputCells(tx, i + 1, Append(cells, c)))

\* c.udt_capacity || 0n, and the test if (c.udt_capacity)
UdtOrZero(c) == IF c.udt_capacity = None THEN BigZero ELSE The(c.udt_capacity)

RECURSIVE SumCapacity(_, _)
SumCapacity(cells, acc) ==
  IF cells = <<>> THEN acc ELSE SumCapacity(Tail(cells), BigAdd(acc, Head(cells).capacity))

RECURSIVE AddUdt(_, _)
AddUdt(cells, acc) ==
  IF cells = <<>> THEN acc
  ELSE AddUdt(Tail(cells),
              IF BigIsZero(UdtOrZero(Head(cells))) THEN acc
              ELSE BigAdd(acc, The(Head(cells).udt_capacity)))
RECURSIVE SubUdt(_, _)
SubUdt(cells, acc) ==
  IF cells = <<>> THEN acc
  ELSE SubUdt(Tail(cells),
              IF BigIsZero(UdtOrZero(Head(cells))) THEN acc
              ELSE BigSub(acc, The(Head(cells).udt_capacity)))

\* variant of Fee with the operands exchanged
Fee_OutputsMinusInputs(ins, outs) == BigSub(SumCapacity(outs, BigZero), SumCapacity(ins, BigZero))

Fee(ins, outs) == BigSub(SumCapacity(ins, BigZero), SumCapacity(outs, BigZero))
UdtFee(ins, outs) == SubUdt(outs, AddUdt(ins, BigZero))

\* variant of updateBal that overwrites the entry instead of adding to it
updateBal_Overwrite(balanceMap, args, ckbDelta, udtDelta) ==
  [a \in DOMAIN balanceMap \cup {args} |->
     IF a = args THEN [ckb |-> ckbDelta, udt |-> udtDelta] ELSE balanceMap[a]]

\* updateBal: balanceMap is a function from the args seen so far
updateBal(balanceMap, args, ckbDelta, udtDelta) ==
  LET old == IF args \in DOMAIN balanceMap THEN balanceMap[args]
             ELSE [ckb |-> BigZero, udt |-> BigZero]
  IN  [a \in DOMAIN balanceMap \cup {args} |->
         IF a = args THEN [ckb |-> BigAdd(old.ckb, ckbDelta), udt |-> BigAdd(old.udt, udtDelta)]
         ELSE balanceMap[a]]

RECURSIVE UpdateInputs(_, _)
UpdateInputs(cells, balanceMap) ==
  IF cells = <<>> THEN balanceMap
  ELSE UpdateInputs(Tail(cells),
         updateBal(balanceMap, Head(cells).args, BigNeg(Head(cells).capacity),
                   BigNeg(UdtOrZero(Head(cells)))))
RECURSIVE UpdateOutputs(_, _)
UpdateOutputs(cells, balanceMap) ==
  IF cells = <<>> THEN balanceMap
  ELSE UpdateOutputs(Tail(cells),
         updateBal(balanceMap, Head(cells).args, Head(cells).capacity, UdtOrZero(Head(cells))))

\* variant of NonZeroEntries that keeps an entry only when both amounts are non-zero
NonZeroEntries_Both(balanceMap) ==
  [a \in {k \in DOMAIN balanceMap :
            ~BigIsZero(balanceMap[k].ckb) /\ ~BigIsZero(balanceMap[k].udt)} |-> balanceMap[a]]

\* the entries with bal.ckb !== 0n || bal.udt !== 0n
NonZeroEntries(balanceMap) ==
  [a \in {k \in DOMAIN balanceMap :
            ~BigIsZero(balanceMap[k].ckb) \/ ~BigIsZero(balanceMap[k].udt)} |-> balanceMap[a]]
BalanceChanges(ins, outs) == NonZeroEntries(UpdateOutputs(outs, UpdateInputs(ins, <<>>)))

\* the message before the block metadata is known: block_number None is 'Pending',
\* block_timestamp <<>> is ''
TxMessage(ins, outs, pw) ==
  [input_cells |-> ins, output_cells |-> outs,
   fee |-> Fee(ins, outs), udt_fee |-> UdtFee(ins, outs),
   parsed_witness |-> pw,
   balance_changes |-> BalanceChanges(ins, outs),
   block_number |-> None, block_timestamp |-> <<>>]

\* variant of WithBlock without the test of the header: a null header is read as well
WithBlock_NoNullCheck(msg, block_hash) ==
  IF block_hash = None \/ getBlockHeader(The(block_hash)).threw THEN msg
  ELSE IF getBlockHeader(The(block_hash)).val = None
  THEN [msg EXCEPT !.block_number = Some(NaN), !.block_timestamp = <<NaN>>]
  ELSE [msg EXCEPT
          !.block_number = Some(parseInt16(The(getBlockHeader(The(block_hash)).val).number)),
          !.block_timestamp = <<parseInt16(The(getBlockHeader(The(block_hash)).val).timestamp)>>]

\* the block metadata step: the header fetch may throw or return null
WithBlock(msg, block_hash) ==
  IF block_hash = None \/ getBlockHeader(The(block_hash)).threw
     \/ getBlockHeader(The(block_hash)).val = None
  THEN msg
  ELSE [msg EXCEPT
          !.block_number = Some(parseInt16(The(getBlockHeader(The(block_hash)).val).number)),
          !.block_timestamp = <<parseInt16(The(getBlockHeader(The(block_hash)).val).timestamp)>>]

(***************************************************************************)
(* getTxMessage as a process: the fetch of the transaction, one fetch per  *)
(* input completing in any order, Promise.all, the header fetch            *)
(***************************************************************************)
TheTx == The(getTransaction(txHash))
NumInputs == Len(TheTx.inputs)

\* const txData = await getTransaction(rpcUrl, txHash); if (!txData) throw
FetchTx ==
  /\ bpc = "fetchTx"
  /\ IF getTransaction(txHash) = None
     THEN /\ bpc' = "failed"
          /\ UNCHANGED <<settled, inputCells>>
     ELSE /\ bpc' = "inputs"
          /\ settled' = [i \in 1..NumInputs |-> "pending"]
          /\ inputCells' = [i \in 1..NumInputs |-> None]
  /\ UNCHANGED <<chain, txHash, parsedWitness, settleOrder, built, traceVars, codecVars, appVars>>

\* variant of SettleInput that stores the cells in the order of completion
SettleInput_ByCompletion(i) ==
  /\ bpc \in {"inputs", "failed"}
  /\ i \in DOMAIN settled
  /\ settled[i] = "pending"
  /\ \E r \in {InputStep(TheTx, i - 1, parsedWitness)} :
       IF r.threw
       THEN /\ settled' = [settled EXCEPT ![i] = "rejected"]
            /\ UNCHANGED <<inputCells, parsedWitness>>
       ELSE /\ settled' = [settled EXCEPT ![i] = "fulfilled"]
            /\ inputCells' = [inputCells EXCEPT ![Len(settleOrder) + 1] = Some(r.val.cell)]
            /\ parsedWitness' = r.val.pw
  /\ settleOrder' = Append(settleOrder, i)
  /\ UNCHANGED <<chain, bpc, txHash, built, traceVars, codecVars, appVars>>

\* the getTransaction of input i answers and the rest of its promise runs; the
\* promises of the other inputs go on after Promise.all has rejected
SettleInput(i) ==
  /\ bpc \in {"inputs", "failed"}
  /\ i \in DOMAIN settled
  /\ settled[i] = "pending"
  /\ \E r \in {InputStep(TheTx, i - 1, parsedWitness)} :
       IF r.threw
       THEN /\ settled' = [settled EXCEPT ![i] = "rejected"]
            /\ UNCHANGED <<inputCells, parsedWitness>>
       ELSE /\ settled' = [settled EXCEPT ![i] = "fulfilled"]
            /\ inputCells' = [inputCells EXCEPT ![i] = Some(r.val.cell)]
            /\ parsedWitness' = r.val.pw
  /\ settleOrder' = Append(settleOrder, i)
  /\ UNCHANGED <<chain, bpc, txHash, built, traceVars, codecVars, appVars>>

\* await Promise.all(inputPromises) rejects with the first rejection
JoinReject ==
  /\ bpc = "inputs"
  /\ \E i \in DOMAIN settled : settled[i] = "rejected"
  /\ bpc' = "failed"
  /\ UNCHANGED <<chain, txHash, settled, inputCells, parsedWitness, settleOrder, built, traceVars, codecVars, appVars>>

\* await Promise.all(inputPromises) resolves: the outputs, the fee and the balance
\* changes are computed without further I/O, then the header is awaited if the
\* transaction has a block hash
JoinResolve ==
  /\ bpc = "inputs"
  /\ \A i \in DOMAIN settled : settled[i] = "fulfilled"
  /\ \E outs \in {OutputCells(TheTx, 0, <<>>)} :
       IF outs.threw
       THEN /\ bpc' = "failed"
            /\ UNCHANGED built
       ELSE /\ built' = Some(TxMessage([i \in 1..NumInputs |-> The(inputCells[i])],
                                       outs.val, parsedWitness))
            /\ bpc' = IF TheTx.block_hash = None THEN "done" ELSE "header"
  /\ UNCHANGED <<chain, txHash, settled, inputCells, parsedWitness, settleOrder, traceVars, codecVars, appVars>>

\* const header = await getBlockHeader(...) inside try/catch, then the return
FetchHeader ==
  /\ bpc = "header"
  /\ built' = Some(WithBlock(The(built), TheTx.block_hash))
  /\ bpc' = "done"
  /\ UNCHANGED <<chain, txHash, settled, inputCells, parsedWitness, settleOrder, traceVars, codecVars, appVars>>

BuildNext ==
  \/ FetchTx
  \/ \E i \in DOMAIN settled : SettleInput(i)
  \/ JoinReject
  \/ JoinResolve
  \/ FetchHeader

\* what getTxMessage returned: Some(message), or None while running or when it threw
Returned == IF bpc = "done" THEN built ELSE None

(***************************************************************************)
(* The ledgers getTxMessage is run on                                      *)
(***************************************************************************)
MaxInputs == 2

Rep(c, n) == [i \in 1..n |-> c]
Script(code_hash, args) == [code_hash |-> code_hash, hash_type |-> "type", args |-> args]
Output(capacity, lock, type) == [capacity |-> capacity, lock |-> lock, type |-> type]

\* lock args of 36 bytes: pubkey hash (20), delay epoch (8), version (8, little-endian)
LockArgs(fill, version) == Str0x \o Rep(fill, 40) \o Rep(0, 16) \o <<0, version>> \o Rep(0, 14)
ShortArgs(fill) == Str0x \o <<fill, fill>>
UdtType == Some(Script("udt", ShortArgs(12)))

\* witnesses: 16 bytes of witness args, the discriminator, the payload
WitnessRevocationV1(fill) ==
  Str0x \o Rep(0, 32) \o <<15, 15>> \o Rep(0, 15) \o <<fill>> \o Rep(fill, 64) \o Rep(fill, 4)
WitnessRevocationV2(fill) ==
  Str0x \o Rep(0, 32) \o <<0, 0>> \o Rep(0, 15) \o <<fill>> \o Rep(fill, 64) \o Rep(fill, 4)
WitnessTruncated == Str0x \o Rep(0, 32) \o <<15, 15>>
WitnessMalformed == Str0x \o Rep(0, 32) \o <<15, 15>> \o Rep(CharZ, 16) \o Rep(1, 68)

\* cell data: a 16-byte little-endian amount, and one followed by a 17th byte
Amount16(n) == Str0x \o <<0, n>> \o Rep(0, 30)
Amount17(n) == Amount16(n) \o <<0, 1>>

Hex3e8 == Str0x \o <<3, 14, 8>>
Hex3de == Str0x \o <<3, 13, 14>>
Hex1f4 == Str0x \o <<1, 15, 4>>
Hex64 == Str0x \o <<6, 4>>
Hex7d0 == Str0x \o <<7, 13, 0>>

TargetHash == "T"
MissingHash == "M"

Tx(inputs, outputs, outputs_data, witnesses, block_hash) ==
  [inputs |-> inputs, outputs |-> outputs, outputs_data |-> outputs_data,
   witnesses |-> witnesses, block_hash |-> block_hash]

PrevTx1 ==
  Tx(<<>>,
     << Output(Hex3e8, Script(commitmentCodeHash, LockArgs(1, 1)), None),
        Output(Hex64, Script(commitmentCodeHash, LockArgs(2, 2)), None),
        Output(Hex1f4, Script("secp", ShortArgs(10)), UdtType) >>,
     << Str0x, Str0x, Amount16(5) >>, <<>>, None)
PrevTx2 ==
  Tx(<<>>,
     << Output(Hex3de, Script("secp", ShortArgs(11)), None),
        Output(Hex64, Script("secp", ShortArgs(10)), UdtType),
        Output(Hex64, Script(commitmentCodeHash, LockArgs(1, 1)), None),
        Output(Hex64, Script("secp", ShortArgs(11)), UdtType) >>,
     << Str0x, Amount17(7), Str0x, Str0x >>, <<>>, None)

OutPoint(tx_hash, index) == [previous_output |-> [tx_hash |-> tx_hash, index |-> Str0x \o <<index>>]]

\* an input of the transaction with the witness at its index (None: no witness there);
\* P1 has no output 3, and the output 3 of P2 has a type script and the data 0x
InputSlots ==
  { [input |-> OutPoint("P1", 0), witness |-> Some(WitnessRevocationV1(3))],
    [input |-> OutPoint("P2", 2), witness |-> Some(WitnessRevocationV1(4))],
    [input |-> OutPoint("P1", 1), witness |-> Some(WitnessRevocationV2(5))],
    [input |-> OutPoint("P1", 0), witness |-> Some(WitnessTruncated)],
    [input |-> OutPoint("P2", 2), witness |-> Some(WitnessMalformed)],
    [input |-> OutPoint("P1", 2), witness |-> None],
    [input |-> OutPoint("P2", 0), witness |-> Some(Str0x)],
    [input |-> OutPoint("P2", 1), witness |-> Some(Str0x)],
    [input |-> OutPoint(MissingHash, 0), witness |-> Some(Str0x)],
    [input |-> OutPoint("P1", 3), witness |-> Some(Str0x)],
    [input |-> OutPoint("P2", 3), witness |-> Some(Str0x)] }

InputLists == UNION { [1..n -> InputSlots] : n \in 1..MaxInputs }

\* the witnesses array: it ends before the first input that has no witness
RECURSIVE Witnesses(_)
Witnesses(slots) ==
  IF slots = <<>> \/ Head(slots).witness = None THEN <<>>
  ELSE <<The(Head(slots).witness)>> \o Witnesses(Tail(slots))

\* the outputs of the transaction, each with its data
OutputLists ==
  { <<>>,
    << [output |-> Output(Hex3de, Script("secp", ShortArgs(11)), None), data |-> Str0x] >>,
    << [output |-> Output(Hex1f4, Script("secp", ShortArgs(10)), UdtType), data |-> Amount16(5)] >>,
    << [output |-> Output(Hex64, Script("secp", ShortArgs(11)), UdtType), data |-> Amount17(2)],
       [output |-> Output(Hex7d0, Script("secp", ShortArgs(10)), None), data |-> Str0x] >>,
    << [output |-> Output(Hex64, Script("secp", ShortArgs(10)), UdtType), data |-> Amount16(3)],
       [output |-> Output(Hex3e8, Script(commitmentCodeHash, LockArgs(1, 1)), None), data |-> Str0x] >>,
    << [output |-> Output(Hex64, Script("secp", ShortArgs(11)), UdtType), data |-> Str0x] >> }

BlockHashes == {None, Some("B1"), Some("B2"), Some("B3")}
Headers ==
  [b \in {"B1", "B2", "B3"} |->
     IF b = "B1" THEN Ok(Some([number |-> Str0x \o <<2, 10>>, timestamp |-> Str0x \o <<1, 0, 0>>]))
     ELSE IF b = "B2" THEN Ok(None)
     ELSE Thrown("CKB RPC error")]

TargetTx(slots, outs, block_hash) ==
  Tx([i \in 1..Len(slots) |-> slots[i].input],
     [i \in 1..Len(outs) |-> outs[i].output],
     [i \in 1..Len(outs) |-> outs[i].data],
     Witnesses(slots), block_hash)

BuildChain(slots, outs, block_hash) ==
  [txs |-> [h \in {TargetHash, "P1", "P2"} |->
              IF h = "P1" THEN Some(PrevTx1)
              ELSE IF h = "P2" THEN Some(PrevTx2)
              ELSE Some(TargetTx(slots, outs, block_hash))],
   headers |-> Headers,
   indexer |-> <<>>]

\* every list of inputs with every list of outputs, and every block hash with the
\* single-input transactions
BuildChains ==
  { BuildChain(slots, outs, None) : slots \in InputLists, outs \in OutputLists }
  \cup { BuildChain(<<s>>, outs, b) : s \in InputSlots, outs \in OutputLists, b \in BlockHashes }

CodecIdle ==
  /\ cop = "idle"
  /\ cin = <<>>
  /\ cout = None

BalanceIdle ==
  /\ liveCells = <<>>
  /\ udtCfgInfos = <<>>
  /\ accountBalance = None

PoolIdle ==
  /\ ppc = "idle"
  /\ items = <<>>
  /\ concurrency = 0
  /\ nextIndex = 0
  /\ active = 0
  /\ results = <<>>
  /\ invocations = <<>>
  /\ jobs = <<>>
  /\ promise = [state |-> "pending", value |-> None]
  /\ startCount = <<>>
  /\ settlements = <<>>

DetailsIdle ==
  /\ selectedNode = None
  /\ details = None
  /\ detailsState = [status |-> "idle"]
  /\ calls = <<>>
  /\ pendingTimeout = None

AppIdle == BalanceIdle /\ PoolIdle /\ DetailsIdle

TraceIdle ==
  /\ tpc = "idle"
  /\ openChannelTxHash = MissingHash
  /\ txTrace = <<>>
  /\ currentTx = None
  /\ result = None
  /\ steps = <<>>
  /\ lookups = <<>>

BuildInit ==
  /\ \/ chain \in BuildChains /\ txHash = TargetHash
     \/ chain \in {BuildChain(<<s>>, <<>>, None) : s \in InputSlots} /\ txHash = MissingHash
  /\ bpc = "fetchTx"
  /\ settled = <<>>
  /\ inputCells = <<>>
  /\ parsedWitness = None
  /\ settleOrder = <<>>
  /\ built = None
  /\ TraceIdle
  /\ CodecIdle
  /\ AppIdle

SpecBuild == BuildInit /\ [][BuildNext]_vars

(***************************************************************************)
(* getTxMessage as one step, for its callers: the input fetches complete   *)
(* in the order given                                                      *)
(***************************************************************************)
Orders(n) == {o \in [1..n -> 1..n] : \A i, j \in 1..n : o[i] = o[j] => i = j}

RECURSIVE SettleAll(_, _, _, _, _)
SettleAll(tx, order, k, cells, pw) ==
  IF k > Len(order) THEN Ok([cells |-> cells, pw |-> pw])
  ELSE Then(InputStep(tx, order[k] - 1, pw), LAMBDA r :
         SettleAll(tx, order, k + 1, [cells EXCEPT ![order[k]] = r.cell], r.pw))

MessageOf(tx, order) ==
  Then(SettleAll(tx, order, 1, [i \in 1..Len(tx.inputs) |-> None], None), LAMBDA r :
  Then(OutputCells(tx, 0, <<>>), LAMBDA outs :
    Ok(WithBlock(TxMessage(r.cells, outs, r.pw), tx.block_hash))))

getTxMessage(h, order) ==
  IF getTransaction(h) = None THEN Thrown("Transaction not found")
  ELSE MessageOf(The(getTransaction(h)), order)

NumInputsOf(h) == IF getTransaction(h) = None THEN 0 ELSE Len(The(getTransaction(h)).inputs)

(***************************************************************************)
(* ChannelDeathTracer                                                      *)
(***************************************************************************)
NoNext == [txHash |-> None, codeHash |-> None]

\* variants of DeathOf: the first entry instead of the second, and two or more
\* entries instead of exactly two
DeathOf_First(cellLock, objects) ==
  IF Len(objects) = 2
  THEN Ok([txHash |-> Some(objects[1]), codeHash |-> Some(cellLock.code_hash)])
  ELSE Ok(NoNext)
DeathOf_AtLeastTwo(cellLock, objects) ==
  IF Len(objects) >= 2
  THEN Ok([txHash |-> Some(objects[2]), codeHash |-> Some(cellLock.code_hash)])
  ELSE Ok(NoNext)

DeathOf(cellLock, objects) ==
  IF Len(objects) = 2
  THEN Ok([txHash |-> Some(objects[2]), codeHash |-> Some(cellLock.code_hash)])
  ELSE Ok(NoNext)

getLnCellDeathHash(h) ==
  IF getTransaction(h) = None THEN Ok(NoNext)
  ELSE IF The(getTransaction(h)).outputs = <<>> THEN Thrown("TypeError")
  ELSE DeathOf(The(getTransaction(h)).outputs[1].lock,
               getTransactions(The(getTransaction(h)).outputs[1].lock))

TraceItem(tx_hash, msg) == [tx_hash |-> tx_hash, msg |-> msg]

\* the trace is cut off at this many items (the code has no cap)
MaxTraceLen == 5

\* const msg = await getTxMessage(...); txTrace.push(...); onStep?.(txTrace.length)
\* variant of Push that reports the length before the append
Push_StepBefore(h, m) ==
  /\ txTrace' = Append(txTrace, TraceItem(h, m))
  /\ steps' = Append(steps, Len(txTrace))

Push(h, m) ==
  /\ txTrace' = Append(txTrace, TraceItem(h, m))
  /\ steps' = Append(steps, Len(txTrace) + 1)

TraceStart ==
  /\ tpc = "start"
  /\ \E order \in Orders(NumInputsOf(openChannelTxHash)) :
     \E m \in {getTxMessage(openChannelTxHash, order)} :
       IF m.threw
       THEN tpc' = "failed" /\ UNCHANGED <<txTrace, steps>>
       ELSE tpc' = "firstLookup" /\ Push(openChannelTxHash, m.val)
  /\ UNCHANGED <<chain, buildVars, codecVars, appVars, openChannelTxHash, currentTx, result, lookups>>

\* const { txHash: nextTx } = await getLnCellDeathHash(rpcUrl, openChannelTxHash)
FirstLookup ==
  /\ tpc = "firstLookup"
  /\ lookups' = Append(lookups, openChannelTxHash)
  /\ \E r \in {getLnCellDeathHash(openChannelTxHash)} :
       IF r.threw THEN tpc' = "failed" /\ UNCHANGED result
       ELSE /\ result' = Some(r.val)
            /\ tpc' = IF r.val.txHash = None THEN "done" ELSE "firstBuild"
  /\ UNCHANGED <<chain, buildVars, codecVars, appVars, openChannelTxHash, txTrace, currentTx, steps>>

\* variant of FirstBuild that returns after the second item without entering the loop
FirstBuild_NoLoop ==
  /\ tpc = "firstBuild"
  /\ Len(txTrace) < MaxTraceLen
  /\ \E order \in Orders(NumInputsOf(The(The(result).txHash))) :
     \E m \in {getTxMessage(The(The(result).txHash), order)} :
       IF m.threw
       THEN tpc' = "failed" /\ UNCHANGED <<txTrace, steps, currentTx>>
       ELSE /\ Push(The(The(result).txHash), m.val)
            /\ currentTx' = The(result).txHash
            /\ tpc' = "done"
  /\ UNCHANGED <<chain, buildVars, codecVars, appVars, openChannelTxHash, result, lookups>>

\* if (nextTx) { const nextMsg = await getTxMessage(...); push; currentTx = nextTx
FirstBuild ==
  /\ tpc = "firstBuild"
  /\ Len(txTrace) < MaxTraceLen
  /\ \E order \in Orders(NumInputsOf(The(The(result).txHash))) :
     \E m \in {getTxMessage(The(The(result).txHash), order)} :
       IF m.threw
       THEN tpc' = "failed" /\ UNCHANGED <<txTrace, steps, currentTx>>
       ELSE /\ Push(The(The(result).txHash), m.val)
            /\ currentTx' = The(result).txHash
            /\ tpc' = "loopLookup"
  /\ UNCHANGED <<chain, buildVars, codecVars, appVars, openChannelTxHash, result, lookups>>

\* while (currentTx) { const result = await getLnCellDeathHash(rpcUrl, currentTx)
\*                     if (!result.txHash) break
LoopLookup ==
  /\ tpc = "loopLookup"
  /\ lookups' = Append(lookups, The(currentTx))
  /\ \E r \in {getLnCellDeathHash(The(currentTx))} :
       IF r.threw THEN tpc' = "failed" /\ UNCHANGED result
       ELSE /\ result' = Some(r.val)
            /\ tpc' = IF r.val.txHash = None THEN "done" ELSE "loopBuild"
  /\ UNCHANGED <<chain, buildVars, codecVars, appVars, openChannelTxHash, txTrace, currentTx, steps>>

\* variant of LoopBuild without the comparison of the code hash
LoopBuild_NoCodeHashCheck ==
  /\ tpc = "loopBuild"
  /\ Len(txTrace) < MaxTraceLen
  /\ \E order \in Orders(NumInputsOf(The(The(result).txHash))) :
     \E m \in {getTxMessage(The(The(result).txHash), order)} :
       IF m.threw
       THEN tpc' = "failed" /\ UNCHANGED <<txTrace, steps, currentTx>>
       ELSE /\ Push(The(The(result).txHash), m.val)
            /\ tpc' = "loopLookup" /\ currentTx' = The(result).txHash
  /\ UNCHANGED <<chain, buildVars, codecVars, appVars, openChannelTxHash, result, lookups>>

\* const newMsg = await getTxMessage(...); push
\* if (result.codeHash !== commitmentCodeHash) break; currentTx = result.txHash }
LoopBuild ==
  /\ tpc = "loopBuild"
  /\ Len(txTrace) < MaxTraceLen
  /\ \E order \in Orders(NumInputsOf(The(The(result).txHash))) :
     \E m \in {getTxMessage(The(The(result).txHash), order)} :
       IF m.threw
       THEN tpc' = "failed" /\ UNCHANGED <<txTrace, steps, currentTx>>
       ELSE /\ Push(The(The(result).txHash), m.val)
            /\ IF The(result).codeHash # Some(commitmentCodeHash)
               THEN tpc' = "done" /\ UNCHANGED currentTx
               ELSE tpc' = "loopLookup" /\ currentTx' = The(result).txHash
  /\ UNCHANGED <<chain, buildVars, codecVars, appVars, openChannelTxHash, result, lookups>>

TraceNext == TraceStart \/ FirstLookup \/ FirstBuild \/ LoopLookup \/ LoopBuild

\* the list getLnTxTrace returned: None while it runs or when it threw
TraceReturned == IF tpc = "done" THEN Some(txTrace) ELSE None

(***************************************************************************)
(* The ledgers getLnTxTrace is run on: transactions T1..Tn, Ti spending    *)
(* the first output of T(i-1) and T1 that of the funding transaction F;    *)
(* each may be unknown to the node; the indexer answers each lock script   *)
(* with none, one, two or three transactions                               *)
(***************************************************************************)
NumTx == 3
HashNames == <<"T1", "T2", "T3", "T4", "T5">>
TraceHashes == {HashNames[i] : i \in 1..NumTx}

\* the lock of the first output of Ti: its args are shorter than
\* MIN_LOCK_ARGS_HEX_LEN, so getTxMessage decodes no witness on these ledgers
TraceLock(i, code_hash) == Script(code_hash, ShortArgs(i))
TraceTx(i, code_hash) ==
  Tx(<<OutPoint(IF i = 1 THEN "F" ELSE HashNames[i - 1], 0)>>,
     <<Output(Hex3e8, TraceLock(i, code_hash), None)>>, <<Str0x>>,
     <<Str0x>>, None)
FundingTx == Tx(<<>>, <<Output(Hex3e8, Script("secp", ShortArgs(10)), None)>>, <<Str0x>>, <<>>, None)

\* what the indexer may answer for the lock of Ti: no entry, Ti alone, Ti and a
\* second transaction, or three entries
Answer(i, entries, second) ==
  IF entries = 0 THEN <<>>
  ELSE IF entries = 1 THEN <<HashNames[i]>>
  ELSE IF entries = 2 THEN <<HashNames[i], second>>
  ELSE <<HashNames[i], second, second>>

\* per transaction: unknown to the node, or its code hash and the indexer's answer
TxChoices ==
  {[known |-> FALSE, code_hash |-> "secp", entries |-> 0, second |-> "T1"]}
  \cup {[known |-> TRUE, code_hash |-> c, entries |-> n, second |-> "T1"] :
          c \in {commitmentCodeHash, "secp"}, n \in {0, 1, 3}}
  \cup {[known |-> TRUE, code_hash |-> c, entries |-> 2, second |-> h] :
          c \in {commitmentCodeHash, "secp"}, h \in TraceHashes}

TraceChain(choice) ==
  [txs |-> [h \in TraceHashes \cup {"F"} |->
              IF h = "F" THEN Some(FundingTx)
              ELSE LET i == CHOOSE j \in 1..NumTx : HashNames[j] = h
                   IN  IF choice[i].known THEN Some(TraceTx(i, choice[i].code_hash)) ELSE None],
   headers |-> Headers,
   indexer |-> [l \in {TraceLock(i, choice[i].code_hash) : i \in 1..NumTx} |->
                  LET i == CHOOSE j \in 1..NumTx : l = TraceLock(j, choice[j].code_hash)
                  IN  Answer(i, choice[i].entries, choice[i].second)]]

BuildIdle ==
  /\ bpc = "idle"
  /\ txHash = MissingHash
  /\ settled = <<>>
  /\ inputCells = <<>>
  /\ parsedWitness = None
  /\ settleOrder = <<>>
  /\ built = None

TraceInit ==
  /\ \E choice \in [1..NumTx -> TxChoices] : chain = TraceChain(choice)
  /\ openChannelTxHash = "T1"
  /\ tpc = "start"
  /\ txTrace = <<>>
  /\ currentTx = None
  /\ result = None
  /\ steps = <<>>
  /\ lookups = <<>>
  /\ BuildIdle
  /\ CodecIdle
  /\ AppIdle

SpecTrace == TraceInit /\ [][TraceNext]_vars

(***************************************************************************)
(* fetchAndParseTx                                                         *)
(***************************************************************************)
\* let version = '2'; if (argsData.length >= MIN_LOCK_ARGS_HEX_LEN) { ... }
VersionOf(argsData) ==
  IF Len(argsData) >= MIN_LOCK_ARGS_HEX_LEN
  THEN Then(littleEndianHexToBigInt(Substring(argsData, 56, 72)), LAMBDA v1 :
         Ok(IF v1 = BigOfInt(1) THEN "1" ELSE "2"))
  ELSE Ok("2")

ParsedTx(witness, prevTx) ==
  IF prevTx = None THEN Thrown("Previous transaction not found.")
  ELSE IF The(prevTx).outputs = <<>> THEN Thrown("TypeError")
  ELSE Then(VersionOf(Strip0x(The(prevTx).outputs[1].lock.args)), LAMBDA version :
         Ok([lockArgs |-> The(prevTx).outputs[1].lock.args,
             witness |-> witness,
             version |-> version]))

fetchAndParseTx(h) ==
  IF getTransaction(h) = None THEN Thrown("Transaction not found.")
  ELSE IF The(getTransaction(h)).inputs = <<>> THEN Thrown("TypeError")
  ELSE ParsedTx(At(The(getTransaction(h)).witnesses, 0),
                getTransaction(The(getTransaction(h)).inputs[1].previous_output.tx_hash))

(***************************************************************************)
(* The codecs, fetchAndParseTx and getTxMessage called once on a string:   *)
(* the string is the argument of a codec and the args of the commitment    *)
(* lock the only input of the transaction T spends                         *)
(***************************************************************************)
Apply(name, value) ==
  /\ cop' = name
  /\ cout' = value
  /\ UNCHANGED <<chain, buildVars, traceVars, cin, appVars>>

CallLittleEndianHexToBigInt ==
  /\ cop = "ready"
  /\ Apply("littleEndianHexToBigInt", littleEndianHexToBigInt(cin))
\* parseEpoch is called with the value littleEndianHexToBigInt returned
CallParseEpoch ==
  /\ cop = "ready"
  /\ ~littleEndianHexToBigInt(cin).threw
  /\ Apply("parseEpoch", Ok(parseEpoch(littleEndianHexToBigInt(cin).val)))
CallParseLockArgs ==
  /\ cop = "ready"
  /\ Apply("parseLockArgs", parseLockArgs(cin))
CallParseLockArgsV2 ==
  /\ cop = "ready"
  /\ Apply("parseLockArgsV2", parseLockArgsV2(cin))
CallParseWitness ==
  /\ cop = "ready"
  /\ Apply("parseWitness", parseWitness(cin))
CallParseWitnessV2 ==
  /\ cop = "ready"
  /\ Apply("parseWitnessV2", parseWitnessV2(cin))
CallFetchAndParseTx ==
  /\ cop = "ready"
  /\ Apply("fetchAndParseTx", fetchAndParseTx(TargetHash))
CallGetTxMessage ==
  /\ cop = "ready"
  /\ Apply("getTxMessage", getTxMessage(TargetHash, <<1>>))

CodecNext ==
  \/ CallLittleEndianHexToBigInt
  \/ CallParseEpoch
  \/ CallParseLockArgs
  \/ CallParseLockArgsV2
  \/ CallParseWitness
  \/ CallParseWitnessV2
  \/ CallFetchAndParseTx
  \/ CallGetTxMessage

(***************************************************************************)
(* The strings the codecs are called on                                    *)
(***************************************************************************)
\* numbers are little-endian sequences of hex digits; d padded to n digits
PadDigits(d, n) == d \o Rep(0, n - Len(d))
\* the hex string of the n bytes of d, lowest byte first
LeBytes(d, n) ==
  [k \in 1..(2 * n) |-> IF k % 2 = 1 THEN PadDigits(d, 2 * n)[k + 1] ELSE PadDigits(d, 2 * n)[k - 1]]

\* 64-bit values: 0, 1, 2, 256, 2^56, 2^64 - 1 and one with sixteen different digits
U64Values ==
  { <<>>, <<1>>, <<2>>, <<0, 0, 1>>, Rep(0, 14) \o <<1>>, Rep(15, 16),
    <<1, 2, 3, 4, 5, 6, 7, 8, 9, 10, 11, 12, 13, 14, 15, 1>> }

\* pubkey_hash(20) || delay_epoch as 8 little-endian bytes || version as 8
\* little-endian bytes || tail
LockArgsBlob(pk, epoch, version, tail) ==
  Rep(pk, 40) \o LeBytes(epoch, 8) \o LeBytes(version, 8) \o tail
\* a settlement hash of 20 bytes and a settlement flag
SettlementTail == Rep(7, 40) \o <<0, 1>>
LockArgsInputs ==
  { prefix \o LockArgsBlob(pk, epoch, version, tail) :
      prefix \in {<<>>, Str0x}, pk \in {1, 10}, epoch \in U64Values, version \in U64Values,
      tail \in {<<>>, SettlementTail} }

\* every string shorter than 72 hex characters that starts such a blob
ShortInputs ==
  { prefix \o SubSeq(LockArgsBlob(1, <<2, 1>>, <<1>>, <<>>), 1, n) :
      prefix \in {<<>>, Str0x}, n \in 0..(MIN_LOCK_ARGS_HEX_LEN - 1) }

\* the 64-bit value with number n, index i, length l and hi in bits 56..63
EpochOfParts(n, i, l, hi) ==
  Norm(PadDigits(NatOfInt(n), 6) \o PadDigits(NatOfInt(i), 4) \o PadDigits(NatOfInt(l), 4)
       \o NatOfInt(hi))
EpochParts == {0, 1, 16777215} \X {0, 1, 65535} \X {0, 7, 65535} \X {0, 1, 255}
EpochInputs == { LeBytes(EpochOfParts(q[1], q[2], q[3], q[4]), 8) : q \in EpochParts }

\* every string of 1 to MaxHexLen of the digits 0, 1 and f
MaxHexLen == 5
HexInputs == UNION { [1..n -> {0, 1, 15}] : n \in 1..MaxHexLen }

\* witnesses: 16 bytes of empty witness args, the discriminator byte, the payload
RECURSIVE Flatten(_)
Flatten(strs) == IF strs = <<>> THEN <<>> ELSE Head(strs) \o Flatten(Tail(strs))
HexByte(n) == <<n \div 16, n % 16>>
WitnessHead(disc) == Rep(0, 32) \o HexByte(disc)

\* a revocation: version as 8 little-endian bytes, 32 bytes of pubkey, the signature
RevocationPayload(version, pk, sig) == LeBytes(version, 8) \o Rep(pk, 64) \o sig
Signatures == {<<>>, Rep(5, 4), Rep(6, 130)}
RevocationWitnesses ==
  { prefix \o WitnessHead(disc) \o RevocationPayload(version, pk, sig) :
      prefix \in {<<>>, Str0x}, disc \in {255, 0}, version \in U64Values, pk \in {2},
      sig \in Signatures }
NonPendingWitnesses ==
  { Str0x \o WitnessHead(254) \o Rep(pk, 64) \o sig : pk \in {2, 11}, sig \in Signatures }

\* the 85-byte HTLC record of seed s: type s, amount 0x32s, the hashes s, s+1 and s+2,
\* and an expiry of s+1 seconds with s in the bits 56..59
HtlcAmount(s) == <<s, 2, 3>>
HtlcExpiry(s) == <<s + 1>> \o Rep(0, 13) \o <<s>>
HtlcRecord(s) ==
  HexByte(s) \o LeBytes(HtlcAmount(s), 16) \o Rep(s, 40) \o Rep(s + 1, 40) \o Rep(s + 2, 40)
  \o LeBytes(HtlcExpiry(s), 8)
HtlcRecords(seeds) == Flatten([k \in 1..Len(seeds) |-> HtlcRecord(seeds[k])])
MaxHtlcs == 2
SeedLists == UNION { [1..n -> {1, 2}] : n \in 0..MaxHtlcs }
\* what follows the signature: nothing, a preimage, a preimage and more, one byte
Preimages == {<<>>, Rep(9, 64), Rep(9, 64) \o <<1, 1>>, <<9, 9>>}
PendingWitness(disc, seeds, preimage) ==
  WitnessHead(disc) \o HexByte(Len(seeds)) \o HtlcRecords(seeds) \o Rep(4, 130) \o preimage
PendingWitnesses ==
  { Str0x \o PendingWitness(disc, seeds, preimage) :
      disc \in {0, 1}, seeds \in SeedLists, preimage \in Preimages }

\* unlock entry k: type k, the with_preimage byte, a signature of 65 bytes and, when
\* with_preimage is 1, a preimage of 32 bytes
UnlockRecord(k, withPreimage) ==
  HexByte(k) \o HexByte(withPreimage) \o Rep(k, 130)
  \o (IF withPreimage = 1 THEN Rep(k + 8, 64) ELSE <<>>)
UnlockRecords(flags) == Flatten([k \in 1..Len(flags) |-> UnlockRecord(k, flags[k])])
MaxUnlocks == 2
FlagLists == UNION { [1..n -> {0, 1, 2}] : n \in 1..MaxUnlocks }
SettlementRemoteAmount == <<1, 0, 0, 15>>
SettlementLocalAmount == Rep(15, 32)
SettlementWitness(flags, seeds) ==
  WitnessHead(Len(flags)) \o HexByte(Len(seeds)) \o HtlcRecords(seeds)
  \o Rep(12, 40) \o LeBytes(SettlementRemoteAmount, 16)
  \o Rep(13, 40) \o LeBytes(SettlementLocalAmount, 16)
  \o UnlockRecords(flags)
SettlementWitnesses ==
  { Str0x \o SettlementWitness(flags, seeds) : flags \in FlagLists, seeds \in SeedLists }

WitnessInputs ==
  RevocationWitnesses \cup NonPendingWitnesses \cup PendingWitnesses \cup SettlementWitnesses

CodecInputs == LockArgsInputs \cup ShortInputs \cup EpochInputs \cup HexInputs \cup WitnessInputs

CodecChain(args) ==
  [txs |-> [h \in {TargetHash, "P1"} |->
              IF h = "P1"
              THEN Some(Tx(<<>>, <<Output(Hex3e8, Script(commitmentCodeHash, args), None)>>,
                           <<Str0x>>, <<>>, None))
              ELSE Some(Tx(<<OutPoint("P1", 0)>>, <<>>, <<>>, <<WitnessRevocationV1(3)>>, None))],
   headers |-> Headers,
   indexer |-> <<>>]

CodecInit ==
  /\ cin \in CodecInputs
  /\ chain = CodecChain(cin)
  /\ cop = "ready"
  /\ cout = None
  /\ BuildIdle
  /\ TraceIdle
  /\ AppIdle

SpecCodec == CodecInit /\ [][CodecNext]_vars

(***************************************************************************)
(* Properties of getTxMessage, checked on SpecBuild                        *)
(***************************************************************************)
\* the previous output input i (1-based) spends, and its data
PrevOutputOf(i) ==
  The(getTransaction(TheTx.inputs[i].previous_output.tx_hash))
    .outputs[parseInt16(TheTx.inputs[i].previous_output.index) + 1]
PrevDataOf(i) ==
  The(getTransaction(TheTx.inputs[i].previous_output.tx_hash))
    .outputs_data[parseInt16(TheTx.inputs[i].previous_output.index) + 1]
\* previous_output.index of input i is an index of the outputs of its transaction
PrevIndexValid(i) ==
  parseInt16(TheTx.inputs[i].previous_output.index)
    < Len(The(getTransaction(TheTx.inputs[i].previous_output.tx_hash)).outputs)
TargetKnown == getTransaction(txHash) # None
PrevMissing(i) == getTransaction(TheTx.inputs[i].previous_output.tx_hash) = None
AllSettled == \A i \in DOMAIN settled : settled[i] # "pending"

\* the inputs whose previous output carries the commitment lock
MatchingInputs == {i \in 1..NumInputs : PrevOutputOf(i).lock.code_hash = commitmentCodeHash}
LowestMatch == CHOOSE i \in MatchingInputs : \A j \in MatchingInputs : i <= j

\* C2: when several inputs spend an output with the commitment lock, parsed_witness
\* of the built message is the decode of the witness of the lowest-index such input,
\* in whatever order the fetches of the previous transactions complete.
C2_LowestIndexDecoded ==
  (built # None /\ Cardinality(MatchingInputs) >= 2) =>
    The(built).parsed_witness =
      DecodeChannelWitness(TheTx, LowestMatch - 1, PrevOutputOf(LowestMatch).lock)

\* C6: the build returns no message when the target transaction or the previous
\* transaction of any of its inputs is unknown to the node: it never reaches its
\* return, no message is ever assembled, Promise.all cannot resolve, and once it has
\* left the input phase it has failed.
C6_MissingFails ==
  (~TargetKnown \/ \E i \in 1..NumInputs : PrevMissing(i)) =>
    /\ Returned = None
    /\ built = None
    /\ bpc \in {"fetchTx", "inputs", "failed"}
    /\ (bpc = "inputs" /\ AllSettled) => \E i \in DOMAIN settled : settled[i] = "rejected"

\* one input's previous transaction is unknown, another input has resolved, and the
\* build has failed
C6_Witness ==
  /\ bpc = "failed"
  /\ TargetKnown
  /\ \E i, j \in DOMAIN settled :
       PrevMissing(i) /\ settled[i] = "rejected" /\ settled[j] = "fulfilled"

\* the same transaction with, at every index, a witness that decodes for the lock
\* version of the output spent there
GoodWitness(i) ==
  IF ~PrevMissing(i) /\ PrevIndexValid(i) /\ PrevOutputOf(i).lock.args = LockArgs(2, 2)
  THEN WitnessRevocationV2(1) ELSE WitnessRevocationV1(1)
GoodWitnessTx == [TheTx EXCEPT !.witnesses = [i \in 1..NumInputs |-> GoodWitness(i)]]
SameEconomics(m1, m2) ==
  /\ m1.fee = m2.fee
  /\ m1.udt_fee = m2.udt_fee
  /\ m1.balance_changes = m2.balance_changes
  /\ m1.input_cells = m2.input_cells
  /\ m1.output_cells = m2.output_cells
\* the channel input has no witness at its index
WitnessMissingAt(i) == At(TheTx.witnesses, i - 1) = None

\* C7: an exception raised while the witness of the channel input is decoded ends up
\* as a parsed_witness holding the error message and nothing else; the build succeeds
\* exactly when it succeeds with witnesses that decode, and fee, udt_fee,
\* balance_changes and the cells are then the same.
C7_DecodeErrorCaptured ==
  /\ (built # None /\ The(built).parsed_witness # None
        /\ The(The(built).parsed_witness).error # None) =>
       /\ The(built).parsed_witness =
            Some(ErrorWitness(The(The(The(built).parsed_witness).error)))
       /\ \E alt \in {MessageOf(GoodWitnessTx, settleOrder)} :
            /\ ~alt.threw
            /\ alt.val.parsed_witness # None
            /\ The(alt.val.parsed_witness).error = None
            /\ SameEconomics(The(built), alt.val)
  /\ (built # None /\ Cardinality(MatchingInputs) = 1 /\ WitnessMissingAt(LowestMatch)) =>
       /\ The(built).parsed_witness # None
       /\ The(The(built).parsed_witness).error # None
  /\ (bpc = "failed" /\ TargetKnown /\ Len(settleOrder) = NumInputs) =>
       MessageOf(GoodWitnessTx, settleOrder).threw

\* the witness of the only channel input is malformed hex, the build has returned and
\* parsed_witness holds an error
C7_Witness ==
  /\ bpc = "done"
  /\ Cardinality(MatchingInputs) = 1
  /\ At(TheTx.witnesses, LowestMatch - 1) = Some(WitnessMalformed)
  /\ The(The(built).parsed_witness).error # None

\* amounts as TLA+ integers: value = Lo + Hi * 2^128
AmountLo(x) == NatToInt(NatMaskDigits(x.mag, 32))
AmountHi(x) == NatToInt(NatShiftDigits(x.mag, 32))
BigOfParts(lo, hi) ==
  BigAdd(BigOfInt(lo),
         IF hi = 0 THEN BigZero ELSE Big(hi < 0, Rep(0, 32) \o NatOfInt(IF hi < 0 THEN 0 - hi ELSE hi)))
RECURSIVE SumSeq(_)
SumSeq(ns) == IF ns = <<>> THEN 0 ELSE Head(ns) + SumSeq(Tail(ns))
SumOver(cells, F(_)) == SumSeq([i \in DOMAIN cells |-> F(cells[i])])
CapacityOf(c) == BigToInt(c.capacity)
UdtLoOf(c) == IF c.udt_capacity = None THEN 0 ELSE AmountLo(The(c.udt_capacity))
UdtHiOf(c) == IF c.udt_capacity = None THEN 0 ELSE AmountHi(The(c.udt_capacity))
\* sum over the inputs minus sum over the outputs
NetSpent(m, F(_)) == SumOver(m.input_cells, F) - SumOver(m.output_cells, F)

\* C8: fee of a built message is the sum of the capacities of its input cells minus
\* that of its output cells, udt_fee the same for udt_capacity with an absent one
\* counted as zero; a negative difference is returned as it is.
C8_FeeIsInputsMinusOutputs ==
  built # None =>
    /\ The(built).fee = BigOfInt(NetSpent(The(built), CapacityOf))
    /\ The(built).udt_fee = BigOfParts(NetSpent(The(built), UdtLoOf), NetSpent(The(built), UdtHiOf))

\* one input of capacity 1000 and one output of capacity 990 give the fee 10, and
\* elsewhere a build has returned a negative fee
C8_Witness ==
  /\ bpc = "done"
  /\ Len(The(built).input_cells) = 1 /\ Len(The(built).output_cells) = 1
  /\ The(built).input_cells[1].capacity = BigOfInt(1000)
  /\ The(built).output_cells[1].capacity = BigOfInt(990)
  /\ The(built).fee = BigOfInt(10)

\* a build that returned a negative fee and a negative udt_fee
C8_NegativeReturned ==
  bpc = "done" /\ The(built).fee.neg /\ The(built).udt_fee.neg

CellsWithArgs(cells, args) == SelectSeq(cells, LAMBDA c : c.args = args)
ArgsOf(m) ==
  {m.input_cells[i].args : i \in DOMAIN m.input_cells}
  \cup {m.output_cells[i].args : i \in DOMAIN m.output_cells}
\* outputs with these args minus inputs with these args
NetReceived(m, args, F(_)) ==
  SumOver(CellsWithArgs(m.output_cells, args), F) - SumOver(CellsWithArgs(m.input_cells, args), F)
NetCkb(m, args) == BigOfInt(NetReceived(m, args, CapacityOf))
NetUdt(m, args) == BigOfParts(NetReceived(m, args, UdtLoOf), NetReceived(m, args, UdtHiOf))

\* C9: balance_changes has an entry for lock args A exactly when the net capacity or
\* the net udt amount received by the cells with args A (outputs minus inputs, absent
\* udt_capacity as zero) is not zero, and the entry holds these two net amounts.
C9_BalanceChanges ==
  built # None =>
    /\ DOMAIN The(built).balance_changes =
         {a \in ArgsOf(The(built)) :
            NetCkb(The(built), a) # BigZero \/ NetUdt(The(built), a) # BigZero}
    /\ \A a \in DOMAIN The(built).balance_changes :
         /\ The(built).balance_changes[a].ckb = NetCkb(The(built), a)
         /\ The(built).balance_changes[a].udt = NetUdt(The(built), a)

\* a built message with an entry whose ckb is zero and udt is not, and lock args whose
\* cells cancel out and have no entry
C9_Witness ==
  /\ bpc = "done"
  /\ \E a \in DOMAIN The(built).balance_changes :
       The(built).balance_changes[a].ckb = BigZero /\ The(built).balance_changes[a].udt # BigZero
  /\ \E a \in ArgsOf(The(built)) : a \notin DOMAIN The(built).balance_changes

\* the first 16 bytes of cell data
First16Bytes(data) == Str0x \o Substring(Strip0x(data), 0, 32)
UdtOfPrefix(type, data) ==
  IF type = None THEN None ELSE Some(toIntFromBigUint128Le(First16Bytes(data)).val)

Known(h) == h \in DOMAIN chain.txs /\ chain.txs[h] # None
\* the lock of the first output of a known transaction and its code hash
FirstLock(h) == The(chain.txs[h]).outputs[1].lock
CodeOf(h) == FirstLock(h).code_hash
\* what the indexer holds for the first-output lock of h
Entries(h) ==
  IF Known(h) /\ FirstLock(h) \in DOMAIN chain.indexer THEN chain.indexer[FirstLock(h)] ELSE <<>>
\* the next spend according to the ledger: the second of exactly two entries
SpendOf(h) == IF Len(Entries(h)) = 2 THEN Some(Entries(h)[2]) ELSE None

\* following the spends from cur leads to h within k steps
RECURSIVE Returns(_, _, _)
Returns(h, cur, k) ==
  /\ k > 0
  /\ SpendOf(cur) # None
  /\ The(SpendOf(cur)) = h \/ Returns(h, The(SpendOf(cur)), k - 1)
\* no chain of spends leads from a transaction back to itself
AcyclicLedger == \A h \in DOMAIN chain.txs : ~Returns(h, h, Cardinality(DOMAIN chain.txs))

NoRepeat(seq) == \A i, j \in DOMAIN seq : seq[i] = seq[j] => i = j
Finished == tpc \in {"done", "failed"}
TraceHashesOf(trace) == [k \in DOMAIN trace |-> trace[k].tx_hash]

C3_DeathLookup ==
  /\ \A h \in DOMAIN chain.txs \cup {MissingHash} :
       /\ ~getLnCellDeathHash(h).threw
       /\ getLnCellDeathHash(h).val.txHash =
            IF Known(h) /\ Len(Entries(h)) = 2 THEN Some(Entries(h)[2]) ELSE None
  /\ tpc \in {"firstBuild", "loopBuild"} =>
       /\ Len(Entries(lookups[Len(lookups)])) = 2
       /\ The(result).txHash = Some(Entries(lookups[Len(lookups)])[2])
  /\ (tpc # "failed" /\ lookups # <<>> /\ Len(Entries(lookups[Len(lookups)])) # 2) =>
       /\ tpc = "done"
       /\ TraceReturned = Some(txTrace)
       /\ Len(txTrace) = Len(lookups)
       /\ \A k \in DOMAIN lookups : txTrace[k].tx_hash = lookups[k]

\* the lookup from the opening transaction found the second of two entries, the
\* lookup from that one met three entries, and the trace has returned its two items
C3_Witness ==
  /\ tpc = "done"
  /\ Len(lookups) = 2
  /\ Len(Entries(lookups[1])) = 2
  /\ Len(Entries(lookups[2])) = 3
  /\ TraceHashesOf(txTrace) = <<lookups[1], Entries(lookups[1])[2]>>

\* C4: item k of the trace is the transaction found by the lookup from item k - 1.
\* When it was found in the loop (k >= 3) and the code hash returned with it, that of
\* the first-output lock of item k - 1, is not the commitment code hash, item k is
\* the last item and no further lookup is made. Otherwise (the code hash is the
\* commitment's, or the lookup was the one from the opening transaction) the walk
\* goes on with a lookup from item k. A trace that has returned takes no further step.
C4_CodeHashStopsLoop ==
  /\ \A k \in 2..Len(txTrace) :
       /\ Len(lookups) >= k - 1
       /\ lookups[k - 1] = txTrace[k - 1].tx_hash
       /\ SpendOf(txTrace[k - 1].tx_hash) = Some(txTrace[k].tx_hash)
       /\ IF k >= 3 /\ CodeOf(txTrace[k - 1].tx_hash) # commitmentCodeHash
          THEN Len(txTrace) = k /\ Len(lookups) = k - 1 /\ tpc = "done"
          ELSE /\ Len(lookups) = k - 1 => tpc = "loopLookup" /\ currentTx = Some(txTrace[k].tx_hash)
               /\ Len(lookups) >= k => lookups[k] = txTrace[k].tx_hash
  /\ tpc = "done" => ~ENABLED TraceNext

\* a returned trace of four items: the lock of the opening transaction is not the
\* commitment lock and the walk went on, that of the second item is and the walk went
\* on, that of the third is not and the fourth item is the last
C4_Witness ==
  /\ tpc = "done"
  /\ Len(txTrace) = 4
  /\ Len(lookups) = 3
  /\ CodeOf(txTrace[1].tx_hash) # commitmentCodeHash
  /\ CodeOf(txTrace[2].tx_hash) = commitmentCodeHash
  /\ CodeOf(txTrace[3].tx_hash) # commitmentCodeHash

\* T1 .. Tn form a linear chain: each of the first n - 1 has exactly two entries, the
\* second the next one, the last has one entry, and the locks of T2 .. T(n-1) are the
\* commitment lock
Linear(n) ==
  /\ \A i \in 1..n : Known(HashNames[i])
  /\ \A i \in 1..(n - 1) : Entries(HashNames[i]) = <<HashNames[i], HashNames[i + 1]>>
  /\ Len(Entries(HashNames[n])) = 1
  /\ \A i \in 2..(n - 1) : CodeOf(HashNames[i]) = commitmentCodeHash
IsPrefix(s, t) == Len(s) <= Len(t) /\ s = SubSeq(t, 1, Len(s))

\* C5: on a linear chain of n transactions the trace never fails, grows along the
\* chain and returns with exactly the n transactions in chain order, not before and
\* with no further append; every returned trace starts with the opening transaction.
C5_LinearTrace ==
  /\ \A n \in 1..NumTx :
       Linear(n) =>
         /\ tpc # "failed"
         /\ IsPrefix(TraceHashesOf(txTrace), [i \in 1..n |-> HashNames[i]])
         /\ tpc = "done" <=> (Len(txTrace) = n /\ Len(lookups) = n)
  /\ TraceReturned # None => The(TraceReturned)[1].tx_hash = openChannelTxHash

\* the trace of a linear chain of three transactions has returned its three items
C5_Witness ==
  /\ Linear(3)
  /\ tpc = "done"
  /\ TraceHashesOf(The(TraceReturned)) = <<"T1", "T2", "T3">>
  /\ steps = <<1, 2, 3>>

\* the header of the block of the transaction: None when there is no block hash, when
\* the fetch fails and when it answers null
HeaderOfTx ==
  IF TheTx.block_hash = None \/ chain.headers[The(TheTx.block_hash)].threw THEN None
  ELSE chain.headers[The(TheTx.block_hash)].val
\* the message of the same transaction not yet in a block
PendingMessage == MessageOf([TheTx EXCEPT !.block_hash = None], settleOrder)

\* C13: block metadata is best effort. Without a block hash, with a header fetch that
\* fails or with one that answers null, getTxMessage still returns its message, with
\* block_number 'Pending', an empty block_timestamp and the cells, fees and balance
\* changes it carries otherwise; with a header, block_number is the decimal value of
\* header.number.
C13_BlockMetadataBestEffort ==
  (bpc = "done" /\ txHash = TargetHash) =>
    /\ built # None
    /\ ~PendingMessage.threw
    /\ SameEconomics(The(built), PendingMessage.val)
    /\ The(built).parsed_witness = PendingMessage.val.parsed_witness
    /\ IF HeaderOfTx = None
       THEN The(built) = PendingMessage.val
            /\ The(built).block_number = None /\ The(built).block_timestamp = <<>>
       ELSE The(built).block_number =
              Some(BigToInt(BigIntHex(Strip0x(The(HeaderOfTx).number))))

\* a message returned as pending although the transaction has a block hash, the fetch
\* of its header having failed
C13_Witness ==
  /\ bpc = "done"
  /\ TheTx.block_hash = Some("B3")
  /\ built # None
  /\ The(built).block_number = None
  /\ The(built).block_timestamp = <<>>
  /\ The(built).input_cells # <<>>

(***************************************************************************)
(* Properties of the codecs and of their callers, checked on SpecCodec     *)
(***************************************************************************)
\* the reference little-endian reader of an even-length hex string: byte i, the
\* characters 2i+1 and 2i+2, contributes byte_i * 256^i, so its low digit is digit 2i
\* and its high digit is digit 2i+1 of the number
RefLittleEndian(h) == Norm([k \in 1..Len(h) |-> IF k % 2 = 1 THEN h[k + 1] ELSE h[k - 1]])
\* the input without its 0x, and its version field
CinData == IF Len(cin) >= 2 /\ cin[1] = 0 /\ cin[2] = CharX THEN SubSeq(cin, 3, Len(cin)) ELSE cin
CinVersionIsOne == RefLittleEndian(SubSeq(CinData, 57, 72)) = <<1>>
\* what each witness decoder makes of the witness of T in getTxMessage
WitnessOfT == WitnessRevocationV1(3)
DecodedBy(r) == IF r.threw THEN Some(ErrorWitness(r.val)) ELSE Some(r.val)

\* C11: with lock args of 72 hex characters or more, fetchAndParseTx reports version
\* '1' and getTxMessage decodes the witness with parseWitness exactly when the 16
\* characters at offset 56, read as a little-endian integer, are 1; otherwise the
\* version is '2' and the decoder parseWitnessV2. With shorter args getTxMessage
\* decodes nothing and parsed_witness stays null.
C11_DecoderSelection ==
  /\ cop = "fetchAndParseTx" =>
       /\ ~cout.threw
       /\ cout.val.version =
            IF Len(CinData) >= 72 /\ CinVersionIsOne THEN "1" ELSE "2"
  /\ cop = "getTxMessage" =>
       /\ ~cout.threw
       /\ cout.val.parsed_witness =
            IF Len(CinData) < 72 THEN None
            ELSE IF CinVersionIsOne THEN DecodedBy(parseWitness(WitnessOfT))
            ELSE DecodedBy(parseWitnessV2(WitnessOfT))

\* getTxMessage has decoded the witness with parseWitness for lock args whose version
\* field is 01 00 00 00 00 00 00 00
C11_Witness ==
  /\ cop = "getTxMessage"
  /\ Len(CinData) >= 72
  /\ SubSeq(CinData, 57, 72) = <<0, 1>> \o Rep(0, 14)
  /\ cout.val.parsed_witness = Some(parseWitness(WitnessOfT).val)
  /\ The(cout.val.parsed_witness).revocation # None

RecoversLockArgs(pk, epoch, version) ==
  /\ ~cout.threw
  /\ cout.val.pubkey_hash = Str0x \o Rep(pk, 40)
  /\ cout.val.delay_epoch.value = Big(FALSE, epoch)
  /\ cout.val.version = Big(FALSE, version)

\* the 36-byte blobs with what they are made of
LockArgsCases ==
  { <<pk, epoch, version, LockArgsBlob(pk, epoch, version, <<>>)>> :
      pk \in {1, 10}, epoch \in U64Values, version \in U64Values }

\* C14: for every pubkey hash, 64-bit delay epoch and 64-bit version, parseLockArgs
\* and parseLockArgsV2 applied to pubkey_hash(20) || delay_epoch as 8 little-endian
\* bytes || version as 8 little-endian bytes return that pubkey hash, that delay epoch
\* and that version.
C14_LockArgsRoundTrip ==
  cop \in {"parseLockArgs", "parseLockArgsV2"} =>
    \A c \in LockArgsCases : CinData = c[4] => RecoversLockArgs(c[1], c[2], c[3])

\* the revocation a decoder returned for the payload of version, pk and sig
DecodesRevocation(version, pk, sig) ==
  /\ ~cout.threw
  /\ cout.val.revocation =
       Some([version |-> Big(FALSE, version),
             pubkey |-> Str0x \o Rep(pk, 64),
             signature |-> Str0x \o sig])

\* the revocation payloads with what they are made of
RevocationCases ==
  { <<version, pk, sig, RevocationPayload(version, pk, sig)>> :
      version \in U64Values, pk \in {2}, sig \in Signatures }

\* C15: parseWitness with discriminator 0xFF and parseWitnessV2 with discriminator
\* 0x00 return a revocation whose version is the little-endian u64 of the 8 bytes after
\* the discriminator, whose pubkey is the next 32 bytes and whose signature is all the
\* remaining bytes, and both return the same revocation for the same payload.
C15_RevocationDecode ==
  \A c \in RevocationCases :
    /\ (cop = "parseWitness" /\ CinData = WitnessHead(255) \o c[4]) =>
         /\ DecodesRevocation(c[1], c[2], c[3])
         /\ cout.val.revocation = parseWitnessV2(WitnessHead(0) \o c[4]).val.revocation
    /\ (cop = "parseWitnessV2" /\ CinData = WitnessHead(0) \o c[4]) =>
         DecodesRevocation(c[1], c[2], c[3])

\* the entry the HTLC record of seed s stands for
HtlcOfSeed(s) ==
  [htlc_type |-> s,
   payment_amount |-> Big(FALSE, HtlcAmount(s)),
   payment_hash |-> Str0x \o Rep(s, 40),
   remote_htlc_pubkey_hash |-> Str0x \o Rep(s + 1, 40),
   local_htlc_pubkey_hash |-> Str0x \o Rep(s + 2, 40),
   htlc_expiry_timestamp |-> BigOfInt((s + 1) * 1000)]
HtlcsOfSeeds(seeds) == [k \in 1..Len(seeds) |-> HtlcOfSeed(seeds[k])]

\* the pending-HTLC witnesses with what they are made of
PendingCases ==
  { <<disc, seeds, preimage, Str0x \o PendingWitness(disc, seeds, preimage)>> :
      disc \in {0, 1}, seeds \in SeedLists, preimage \in Preimages }
\* what parseWitness returned for the witness of disc, seeds and preimage
DecodesPending(disc, seeds, preimage) ==
  /\ ~cout.threw
  /\ cout.val.unlock_type = Some(disc)
  /\ cout.val.pending_htlc =
       Some([pending_htlc_count |-> Len(seeds),
             htlcs |-> HtlcsOfSeeds(seeds),
             signature |-> Str0x \o Rep(4, 130),
             preimage |-> IF preimage = <<>> THEN StrNA
                          ELSE Str0x \o Substring(preimage, 0, 64)])

\* C16: on a well-formed buffer whose discriminator is neither 0xFF nor 0xFE,
\* parseWitness returns a pending_htlc with pending_htlc_count entries, entry i being
\* the i-th 85-byte record (type, little-endian amount, three hashes, little-endian
\* expiry masked to 56 bits and multiplied by 1000), then the 65-byte signature, and a
\* preimage that is the next 32 bytes when bytes remain and 'N/A' otherwise.
C16_PendingHtlcDecode ==
  cop = "parseWitness" =>
    \A c \in PendingCases : cin = c[4] => DecodesPending(c[1], c[2], c[3])

\* a buffer of two records and a preimage has been decoded
C16_Witness ==
  /\ cop = "parseWitness"
  /\ cin = Str0x \o PendingWitness(0, <<1, 2>>, Rep(9, 64))
  /\ ~cout.threw
  /\ Len(The(cout.val.pending_htlc).htlcs) = 2
  /\ The(cout.val.pending_htlc).htlcs[2] = HtlcOfSeed(2)
  /\ The(cout.val.pending_htlc).preimage = Str0x \o Rep(9, 64)

\* the entries the unlock records of flags stand for
UnlocksOfFlags(flags) ==
  [k \in 1..Len(flags) |->
     [unlock_type |-> k,
      with_preimage |-> flags[k],
      signature |-> Str0x \o Rep(k, 130),
      preimage |-> IF flags[k] = 1 THEN Str0x \o Rep(k + 8, 64) ELSE StrNA]]

\* the settlement witnesses with what they are made of
SettlementCases ==
  { <<flags, seeds, Str0x \o SettlementWitness(flags, seeds)>> :
      flags \in FlagLists, seeds \in SeedLists }
\* what parseWitnessV2 returned for the witness of flags and seeds
DecodesSettlement(flags, seeds) ==
  /\ ~cout.threw
  /\ cout.val.unlock_count = Some(Len(flags))
  /\ cout.val.settlement =
       Some([pending_htlc_count |-> Len(seeds),
             htlcs |-> HtlcsOfSeeds(seeds),
             settlement_remote_pubkey_hash |-> Str0x \o Rep(12, 40),
             settlement_remote_amount |-> Big(FALSE, SettlementRemoteAmount),
             settlement_local_pubkey_hash |-> Str0x \o Rep(13, 40),
             settlement_local_amount |-> Big(FALSE, SettlementLocalAmount),
             unlocks |-> UnlocksOfFlags(flags)])
  /\ \A k \in 1..Len(flags) :
       The(cout.val.settlement).unlocks[k].preimage = StrNA <=> flags[k] # 1

\* C17: with a non-zero unlock_count parseWitnessV2 returns a settlement with
\* pending_htlc_count HTLCs, the remote pubkey hash, the little-endian remote amount,
\* the local pubkey hash and the little-endian local amount, and unlock_count unlock
\* entries read one after the other, an entry taking 67 bytes and 32 more exactly when
\* its with_preimage byte is 1, its preimage being 'N/A' exactly when it is not.
C17_SettlementDecode ==
  cop = "parseWitnessV2" =>
    \A c \in SettlementCases : cin = c[3] => DecodesSettlement(c[1], c[2])

\* a settlement of one HTLC and two unlocks, the first with a preimage and the second
\* without, has been decoded
C17_Witness ==
  /\ cop = "parseWitnessV2"
  /\ cin = Str0x \o SettlementWitness(<<1, 0>>, <<2>>)
  /\ ~cout.threw
  /\ Len(The(cout.val.settlement).unlocks) = 2
  /\ The(cout.val.settlement).unlocks[1].preimage = Str0x \o Rep(9, 64)
  /\ The(cout.val.settlement).unlocks[2].unlock_type = 2
  /\ The(cout.val.settlement).unlocks[2].preimage = StrNA

\* the variants a ParsedWitness has
VariantNames == {"revocation", "non_pending_htlc", "pending_htlc", "settlement", "error"}
VariantsOf(w) == { v \in VariantNames : w[v] # None }
\* the discriminator: the byte after the 16 bytes of empty witness args, NaN without one
DiscriminatorOf(data) == IF Len(data) >= 34 THEN 16 * data[33] + data[34] ELSE NaN

\* C18: a ParsedWitness returned by parseWitness or parseWitnessV2, or made by the
\* error path of getTxMessage, has exactly one of revocation, non_pending_htlc,
\* pending_htlc, settlement and error, and the discriminator alone chooses it:
\* for parseWitness 0xFF is revocation, 0xFE non_pending_htlc and anything else
\* pending_htlc; for parseWitnessV2 0x00 is revocation and anything else settlement.
C18_ExactlyOneVariant ==
  /\ (cop = "parseWitness" /\ ~cout.threw) =>
       VariantsOf(cout.val) =
         { IF DiscriminatorOf(CinData) = 255 THEN "revocation"
           ELSE IF DiscriminatorOf(CinData) = 254 THEN "non_pending_htlc"
           ELSE "pending_htlc" }
  /\ (cop = "parseWitnessV2" /\ ~cout.threw) =>
       VariantsOf(cout.val) =
         { IF DiscriminatorOf(CinData) = 0 THEN "revocation" ELSE "settlement" }
  /\ (cop = "getTxMessage" /\ ~cout.threw /\ cout.val.parsed_witness # None) =>
       /\ Cardinality(VariantsOf(The(cout.val.parsed_witness))) = 1
       /\ "error" \in VariantsOf(The(cout.val.parsed_witness)) <=>
            (IF CinVersionIsOne THEN parseWitness(WitnessOfT) ELSE parseWitnessV2(WitnessOfT)).threw

\* getTxMessage has made a ParsedWitness that holds the error of the decoder and
\* nothing else
C18_Witness ==
  /\ cop = "getTxMessage"
  /\ ~cout.threw
  /\ cout.val.parsed_witness # None
  /\ VariantsOf(The(cout.val.parsed_witness)) = {"error"}

\* number | index << 24 | length << 40 of a ParsedEpoch
Recombined(e) ==
  Norm(PadDigits(e.number.mag, 6) \o PadDigits(e.index.mag, 4) \o e.length.mag)

\* C19: for every 64-bit value v, parseEpoch(v) returns the bits [0,24) of v as
\* number, the bits [24,40) as index and the bits [40,56) as length, so that
\* number | index << 24 | length << 40 is v & (2^56 - 1); no value is rejected and the
\* bits 56..63 change none of number, index and length.
C19_EpochFields ==
  cop = "parseEpoch" =>
    /\ ~cout.threw
    /\ Len(cout.val.value.mag) <= 16 =>
         /\ Recombined(cout.val) = NatMaskDigits(cout.val.value.mag, 14)
         /\ Len(cout.val.number.mag) <= 6
         /\ Len(cout.val.index.mag) <= 4
         /\ Len(cout.val.length.mag) <= 4
    /\ \A q \in EpochParts :
         cin = LeBytes(EpochOfParts(q[1], q[2], q[3], q[4]), 8) =>
           /\ cout.val.value = Big(FALSE, EpochOfParts(q[1], q[2], q[3], q[4]))
           /\ cout.val.number = BigOfInt(q[1])
           /\ cout.val.index = BigOfInt(q[2])
           /\ cout.val.length = BigOfInt(q[3])

\* parseEpoch has split a value with bits set above bit 55
C19_Witness ==
  /\ cop = "parseEpoch"
  /\ cin = LeBytes(EpochOfParts(1, 65535, 7, 255), 8)
  /\ cout.val.number = BigOfInt(1)
  /\ cout.val.index = BigOfInt(65535)
  /\ cout.val.length = BigOfInt(7)
  /\ cout.val.value # Big(FALSE, Recombined(cout.val))

\* an odd-length string behind one zero nibble
Padded(h) == IF Len(h) % 2 = 1 THEN <<0>> \o h ELSE h
\* the sum of byte_i * 256^i over the bytes of an even-length string, as an integer
RECURSIVE RefInt(_)
RefInt(h) == IF h = <<>> THEN 0 ELSE (16 * h[1] + h[2]) + 256 * RefInt(SubSeq(h, 3, Len(h)))

\* C20: littleEndianHexToBigInt returns what the reference little-endian reader
\* returns for every non-empty hex string of any width, byte i counting for
\* byte_i * 256^i and an odd-length string being read behind one zero nibble; for an
\* even-length string, encoding the result as little-endian hex and decoding it again
\* gives the same integer.
C20_LittleEndianReader ==
  (cop = "littleEndianHexToBigInt" /\ HexValid(cin)) =>
    /\ ~cout.threw
    /\ cout.val = Big(FALSE, RefLittleEndian(Padded(cin)))
    /\ Len(cin) <= MaxHexLen + 1 => BigToInt(cout.val) = RefInt(Padded(cin))
    /\ Len(cin) % 2 = 0 =>
         littleEndianHexToBigInt(LeBytes(cout.val.mag, Len(cin) \div 2)) = cout

\* the three characters f01 have been read as the bytes 0f and 01, that is 0x010f
C20_Witness ==
  /\ cop = "littleEndianHexToBigInt"
  /\ cin = <<15, 0, 1>>
  /\ ~cout.threw
  /\ BigToInt(cout.val) = 271

(***************************************************************************)
(* Further properties of getLnTxTrace, checked on SpecTrace                *)
(***************************************************************************)
\* C22: onStep is called once after each append with the length of the trace at that
\* moment: the values reported are 1, 2, ..., n without gap or repeat, n being the
\* number of items appended so far, when the trace returns and when it fails.
C22_StepsCountAppends == steps = [k \in 1..Len(txTrace) |-> k]

\* a trace that failed after its second item has reported 1 and 2
C22_Witness ==
  /\ tpc = "failed"
  /\ Len(txTrace) = 2
  /\ steps = <<1, 2>>

\* C25: no transaction hash is twice in a trace, returned or being built: every item
\* appended is a transaction not yet in the list, whatever the ledger and the answers
\* of the indexer.
C25_NoRepeatedHash == NoRepeat(TraceHashesOf(txTrace))

(***************************************************************************)
(* Further properties of getTxMessage, checked on SpecBuild                *)
(***************************************************************************)
\* the elements of a finite set in some order
RECURSIVE SetToSeq(_)
SetToSeq(S) ==
  IF S = {} THEN <<>>
  ELSE <<CHOOSE x \in S : TRUE>> \o SetToSeq(S \ {CHOOSE x \in S : TRUE})
RECURSIVE BigSum(_)
BigSum(xs) == IF xs = <<>> THEN BigZero ELSE BigAdd(Head(xs), BigSum(Tail(xs)))
\* the ckb deltas and the udt deltas of the entries of balance_changes
CkbDeltas(m) ==
  [i \in 1..Cardinality(DOMAIN m.balance_changes) |->
     m.balance_changes[SetToSeq(DOMAIN m.balance_changes)[i]].ckb]
UdtDeltas(m) ==
  [i \in 1..Cardinality(DOMAIN m.balance_changes) |->
     m.balance_changes[SetToSeq(DOMAIN m.balance_changes)[i]].udt]

\* C24: in every built message the ckb deltas of balance_changes add up to minus fee
\* and the udt deltas to minus udt_fee, also when several cells have the same args and
\* when entries with no net change have been dropped.
C24_Conservation ==
  built # None =>
    /\ BigSum(CkbDeltas(The(built))) = BigNeg(The(built).fee)
    /\ BigSum(UdtDeltas(The(built))) = BigNeg(The(built).udt_fee)

\* a built message with a fee, two cells of the same args that share one entry and
\* args whose cells cancel out and have no entry
C24_Witness ==
  /\ bpc = "done"
  /\ ~BigIsZero(The(built).fee)
  /\ ~BigIsZero(The(built).udt_fee)
  /\ \E a \in DOMAIN The(built).balance_changes :
       Len(CellsWithArgs(The(built).input_cells, a))
         + Len(CellsWithArgs(The(built).output_cells, a)) >= 2
  /\ \E a \in ArgsOf(The(built)) : a \notin DOMAIN The(built).balance_changes

\* the previous transaction of every input is in the ledger, and so is the target
AllPresent == TargetKnown /\ \A i \in 1..NumInputs : ~PrevMissing(i)

\* C26: getTxMessage fails only for missing transactions: with the target and the
\* previous transaction of every input in the ledger the build returns a message,
\* also when a cell with a type script has the data 0x and when previous_output.index
\* is no output index of the previous transaction.
C26_FailsOnlyWhenMissing ==
  AllPresent =>
    /\ bpc # "failed"
    /\ \A i \in DOMAIN settled : settled[i] # "rejected"

\* the capacity field of an output as a number
CapacityValue(output) == BigIntHex(Strip0x(output.capacity))

\* C27: input_cells of a built message has one entry per input of the transaction, in
\* the order of the inputs, entry i describing the previous output input i refers to,
\* and output_cells follows the order of the outputs, in whatever order the fetches of
\* the previous transactions complete.
C27_CellsInTransactionOrder ==
  built # None =>
    /\ Len(The(built).input_cells) = NumInputs
    /\ \A i \in 1..NumInputs :
         /\ The(built).input_cells[i].args = PrevOutputOf(i).lock.args
         /\ The(built).input_cells[i].lock = Some(PrevOutputOf(i).lock)
         /\ The(built).input_cells[i].capacity = CapacityValue(PrevOutputOf(i))
         /\ The(built).input_cells[i].udt_args = UdtArgs(PrevOutputOf(i).type)
    /\ Len(The(built).output_cells) = Len(TheTx.outputs)
    /\ \A i \in 1..Len(TheTx.outputs) :
         /\ The(built).output_cells[i].args = TheTx.outputs[i].lock.args
         /\ The(built).output_cells[i].capacity = CapacityValue(TheTx.outputs[i])

\* a message built from two different inputs whose fetches completed in reverse order
C27_Witness ==
  /\ bpc = "done"
  /\ settleOrder = <<2, 1>>
  /\ The(built).input_cells[1] # The(built).input_cells[2]
  /\ Len(The(built).output_cells) = 2

(***************************************************************************)
(* computeAccountBalance                                                   *)
(***************************************************************************)
\* the character ':' and the letters A..F (a..f are the digits 10..15)
CharColon == 21
UpperHexDigits == 26..31
toLowerCase(s) == [i \in 1..Len(s) |-> IF s[i] \in UpperHexDigits THEN s[i] - 16 ELSE s[i]]

scriptEquals(a, b) ==
  /\ toLowerCase(a.code_hash) = toLowerCase(b.code_hash)
  /\ a.hash_type = b.hash_type
  /\ toLowerCase(a.args) = toLowerCase(b.args)

\* udtCfgInfos.find((u) => scriptEquals(u.script, type)): None is undefined
RECURSIVE FindUdt(_, _)
FindUdt(infos, type) ==
  IF infos = <<>> THEN None
  ELSE IF scriptEquals(Head(infos).script, type) THEN Some(Head(infos))
  ELSE FindUdt(Tail(infos), type)

\* `${matchedUdt.script.code_hash}:${matchedUdt.script.args}`
UdtKey(script) == script.code_hash \o <<CharColon>> \o script.args

\* udtMap is the Map in insertion order; udtMap.get(key): None or the position of the entry
MapGet(map, key) ==
  IF \E i \in DOMAIN map : map[i].key = key
  THEN Some(CHOOSE i \in DOMAIN map : map[i].key = key)
  ELSE None

\* the amount of a UDT cell: throws, or returns 0n or the value of the first 32 digits
CellAmount(cell) ==
  IF Len(Strip0x(cell.data)) >= 32
  THEN toIntFromBigUint128Le(Str0x \o Substring(Strip0x(cell.data), 0, 32))
  ELSE Ok(BigZero)

\* ckbBalance += BigInt(cell.capacity); ckbCellCount++
AddCkb(acc, cell) ==
  Then(BigIntOfString(cell.capacity), LAMBDA capacity :
    Ok([acc EXCEPT !.ckbBalance = BigAdd(@, capacity), !.ckbCellCount = @ + 1]))

\* the branch of a cell whose type matched the registered matchedUdt
AddUdtCell(acc, cell, matchedUdt) ==
  Then(CellAmount(cell), LAMBDA amount :
    IF MapGet(acc.udtMap, UdtKey(matchedUdt.script)) # None
    THEN Ok([acc EXCEPT !.udtMap[The(MapGet(acc.udtMap, UdtKey(matchedUdt.script)))].value =
                          [@ EXCEPT !.balance = BigAdd(@, amount), !.cellCount = @ + 1]])
    ELSE Ok([acc EXCEPT !.udtMap =
               Append(@, [key |-> UdtKey(matchedUdt.script),
                          value |-> [name |-> matchedUdt.name, typeScript |-> matchedUdt.script,
                                     balance |-> amount, cellCount |-> 1]])]))

\* the body of the loop over the cells
AddCell(acc, cell, infos) ==
  IF cell.type = None THEN AddCkb(acc, cell)
  ELSE IF FindUdt(infos, The(cell.type)) # None
       THEN AddUdtCell(acc, cell, The(FindUdt(infos, The(cell.type))))
       ELSE AddCkb(acc, cell)

RECURSIVE AddCells(_, _, _)
AddCells(acc, cells, infos) ==
  IF cells = <<>> THEN Ok(acc)
  ELSE Then(AddCell(acc, Head(cells), infos), LAMBDA next : AddCells(next, Tail(cells), infos))

computeAccountBalance(cells, infos, network) ==
  Then(AddCells([ckbBalance |-> BigZero, ckbCellCount |-> 0, udtMap |-> <<>>], cells, infos),
       LAMBDA acc :
         Ok([ckbBalance |-> acc.ckbBalance,
             ckbCellCount |-> acc.ckbCellCount,
             udtBalances |-> [i \in DOMAIN acc.udtMap |-> acc.udtMap[i].value],
             cells |-> cells,
             network |-> network]))

(***************************************************************************)
(* computeAccountBalance called once on a list of live cells               *)
(***************************************************************************)
CallComputeAccountBalance ==
  /\ accountBalance = None
  /\ accountBalance' = Some(computeAccountBalance(liveCells, udtCfgInfos, "testnet"))
  /\ UNCHANGED <<chain, buildVars, traceVars, codecVars, liveCells, udtCfgInfos,
                 poolVars, detailsVars>>

BalanceNext == CallComputeAccountBalance

(***************************************************************************)
(* The cells and the registered UDT scripts                                *)
(***************************************************************************)
MaxCells == 2

UdtScript(code_hash, hash_type, args) ==
  [code_hash |-> code_hash, hash_type |-> hash_type, args |-> args]
LiveCell(capacity, type, data) ==
  [capacity |-> capacity, lock |-> Script("secp", ShortArgs(11)), type |-> type, data |-> data]

\* the code hashes 0xaa, 0xAA, 0xbb and 0xcc
HashLower == Str0x \o <<10, 10>>
HashUpper == Str0x \o <<26, 26>>
HashOther == Str0x \o <<11, 11>>
HashUnregistered == Str0x \o <<12, 12>>

\* three registered scripts: the first two differ in hash_type only
RegisteredUdts ==
  { [name |-> "USDI", script |-> UdtScript(HashLower, "type", ShortArgs(1))],
    [name |-> "RUSD", script |-> UdtScript(HashLower, "data", ShortArgs(1))],
    [name |-> "SEAL", script |-> UdtScript(HashOther, "type", ShortArgs(1))] }
UdtCfgLists ==
  {<<>>} \cup {<<u>> : u \in RegisteredUdts}
         \cup {p \in RegisteredUdts \X RegisteredUdts : p[1] # p[2]}

\* data of 16 bytes holding the amount, and of 17 bytes with one more byte behind it
AmountData(amount) == Str0x \o LeBytes(NatOfInt(amount), 16)
LongData(amount) == AmountData(amount) \o <<15, 15>>

\* a plain cell of capacity 500; cells of the three registered scripts (one with 17
\* bytes of data, one with the code hash in capitals and 1 byte of data); a cell whose
\* type script is not registered
LiveCells ==
  { LiveCell(Str0x \o <<1, 15, 4>>, None, Str0x),
    LiveCell(Str0x \o <<8, 14>>, Some(UdtScript(HashLower, "type", ShortArgs(1))), AmountData(42)),
    LiveCell(Str0x \o <<8, 14>>, Some(UdtScript(HashLower, "data", ShortArgs(1))), LongData(7)),
    LiveCell(Str0x \o <<8, 14>>, Some(UdtScript(HashUpper, "type", ShortArgs(1))), Str0x \o <<2, 10>>),
    LiveCell(Str0x \o <<8, 14>>, Some(UdtScript(HashOther, "type", ShortArgs(1))), AmountData(300)),
    LiveCell(Str0x \o <<6, 4>>, Some(UdtScript(HashUnregistered, "type", ShortArgs(1))), AmountData(42)) }

RECURSIVE CellLists(_)
CellLists(n) ==
  IF n = 0 THEN {<<>>}
  ELSE CellLists(n - 1) \cup {Append(l, c) : l \in {m \in CellLists(n - 1) : Len(m) = n - 1}, c \in LiveCells}

\* no ledger is queried
EmptyChain == [txs |-> <<>>, headers |-> <<>>, indexer |-> <<>>]

BalanceInit ==
  /\ liveCells \in CellLists(MaxCells)
  /\ udtCfgInfos \in UdtCfgLists
  /\ accountBalance = None
  /\ chain = EmptyChain
  /\ BuildIdle
  /\ TraceIdle
  /\ CodecIdle
  /\ PoolIdle
  /\ DetailsIdle

SpecBalance == BalanceInit /\ [][BalanceNext]_vars

(***************************************************************************)
(* Properties of computeAccountBalance                                     *)
(***************************************************************************)
\* the position in udtCfgInfos of the first registered script a cell's type script
\* matches (0: the cell has no type script or matches none)
TypeMatches(cell, u) ==
  /\ cell.type # None
  /\ toLowerCase(The(cell.type).code_hash) = toLowerCase(udtCfgInfos[u].script.code_hash)
  /\ toLowerCase(The(cell.type).args) = toLowerCase(udtCfgInfos[u].script.args)
  /\ The(cell.type).hash_type = udtCfgInfos[u].script.hash_type
MatchOf(cell) ==
  IF \E u \in DOMAIN udtCfgInfos : TypeMatches(cell, u)
  THEN CHOOSE u \in DOMAIN udtCfgInfos :
         TypeMatches(cell, u) /\ \A v \in 1..(u - 1) : ~TypeMatches(cell, v)
  ELSE 0
\* the cells counted for the registered script at position u (0: the CKB cells)
CellsOf(u) == {k \in DOMAIN liveCells : MatchOf(liveCells[k]) = u}
\* the little-endian value of the first 16 bytes of the data, 0 for shorter data
AmountOf(cell) ==
  IF Len(cell.data) - 2 >= 32 THEN RefInt(SubSeq(cell.data, 3, 34)) ELSE 0
CapacityOfCell(cell) == NatToInt(Norm(Reverse(SubSeq(cell.capacity, 3, Len(cell.capacity)))))
SumOfCells(S, F(_)) == SumSeq([i \in 1..Cardinality(S) |-> F(liveCells[SetToSeq(S)[i]])])
BalanceReturned == accountBalance # None /\ ~The(accountBalance).threw
Balance == The(accountBalance).val
\* the entries of udtBalances for the registered script at position u
EntriesOf(u) ==
  {e \in DOMAIN Balance.udtBalances :
     /\ Balance.udtBalances[e].typeScript = udtCfgInfos[u].script
     /\ Balance.udtBalances[e].name = udtCfgInfos[u].name}

\* C21 as claimed: every cell is counted in exactly one bucket. The cells without a
\* type script and those whose type script matches no registered script make up
\* ckbBalance (the sum of their capacities) and ckbCellCount; the cells whose type
\* script matches a registered script make up that script's entry and no other: its
\* balance is the sum of the little-endian 128-bit values of the first 16 bytes of
\* their data (0 for shorter data) and its cellCount their number.
C21_OneBucketPerCell ==
  BalanceReturned =>
    /\ BigToInt(Balance.ckbBalance) = SumOfCells(CellsOf(0), CapacityOfCell)
    /\ Balance.ckbCellCount = Cardinality(CellsOf(0))
    /\ \A u \in DOMAIN udtCfgInfos :
         CellsOf(u) # {} =>
           \E e \in EntriesOf(u) :
             /\ BigToInt(Balance.udtBalances[e].balance) = SumOfCells(CellsOf(u), AmountOf)
             /\ Balance.udtBalances[e].cellCount = Cardinality(CellsOf(u))

\* the registered scripts that matched at least one cell
MatchedUdts == {u \in DOMAIN udtCfgInfos : CellsOf(u) # {}}

\* C28 as claimed: udtBalances has exactly one entry per registered script that
\* matched at least one cell, carrying that script and its name, so distinct registered
\* scripts never share an entry, also when they differ in hash_type only; every entry
\* has cellCount >= 1; ckbCellCount plus the sum of the cellCount values is the number
\* of cells.
C28_OneEntryPerMatchedScript ==
  BalanceReturned =>
    /\ Len(Balance.udtBalances) = Cardinality(MatchedUdts)
    /\ \A u \in MatchedUdts : Cardinality(EntriesOf(u)) = 1
    /\ \A e \in DOMAIN Balance.udtBalances : Balance.udtBalances[e].cellCount >= 1
    /\ Balance.ckbCellCount
         + SumSeq([e \in DOMAIN Balance.udtBalances |-> Balance.udtBalances[e].cellCount])
       = Len(liveCells)

(***************************************************************************)
(* runWithConcurrency                                                      *)
(*   p is the state the closures share: nextIndex, active, results, the    *)
(*   returned promise, and for each item the promise fn returned for it    *)
(***************************************************************************)
\* resolve(v) and reject(e) of the returned promise: the first call settles it
Resolve(pr, v) == IF pr.state = "pending" THEN [state |-> "resolved", value |-> Some(v)] ELSE pr
Reject(pr, e) == IF pr.state = "pending" THEN [state |-> "rejected", value |-> Some(e)] ELSE pr

\* what fn(items[i], i) fulfils with, and what it rejects with
ResultOf(its, k) == [item |-> its[k], index |-> k - 1]
ErrorOf(k) == [error |-> k - 1]

\* runNext()
RunNext(p) ==
  IF p.nextIndex >= Len(p.items)
  THEN IF p.active = 0 THEN [p EXCEPT !.promise = Resolve(@, p.results)] ELSE p
  ELSE [p EXCEPT !.nextIndex = @ + 1,
                 !.active = @ + 1,
                 !.invocations[p.nextIndex + 1] = "inFlight",
                 !.startCount[p.nextIndex + 1] = @ + 1]

\* variant of Initial that starts every item at once
Initial_AllItems(c, n) == n

\* const initial = Math.min(concurrency, items.length)
Initial(c, n) == Min(c, n)

\* for (let i = 0; i < initial; i += 1) runNext()
RECURSIVE RunNextTimes(_, _)
RunNextTimes(p, n) == IF n <= 0 THEN p ELSE RunNextTimes(RunNext(p), n - 1)

Pool ==
  [items |-> items, nextIndex |-> nextIndex, active |-> active, results |-> results,
   invocations |-> invocations, promise |-> promise, startCount |-> startCount]
SetPool(p) ==
  /\ nextIndex' = p.nextIndex
  /\ active' = p.active
  /\ results' = p.results
  /\ invocations' = p.invocations
  /\ promise' = p.promise
  /\ startCount' = p.startCount

\* the executor of the returned promise
PoolStart ==
  /\ ppc = "call"
  /\ ppc' = "running"
  /\ IF Len(items) = 0
     THEN SetPool([Pool EXCEPT !.promise = Resolve(@, results)])
     ELSE SetPool(RunNextTimes(Pool, Initial(concurrency, Len(items))))
  /\ UNCHANGED <<chain, buildVars, traceVars, codecVars, balanceVars, detailsVars,
                 items, concurrency, jobs, settlements>>

\* the promise of invocation k fulfils: its .then reaction is due
Fulfil(k) ==
  /\ invocations[k] = "inFlight"
  /\ invocations' = [invocations EXCEPT ![k] = "fulfilled"]
  /\ jobs' = Append(jobs, [stage |-> "then", index |-> k])
  /\ settlements' = Append(settlements, k)
  /\ UNCHANGED <<chain, buildVars, traceVars, codecVars, balanceVars, detailsVars,
                 ppc, items, concurrency, nextIndex, active, results, promise, startCount>>

\* the promise of invocation k rejects
RejectInvocation(k) ==
  /\ invocations[k] = "inFlight"
  /\ invocations' = [invocations EXCEPT ![k] = "rejected"]
  /\ jobs' = Append(jobs, [stage |-> "then", index |-> k])
  /\ settlements' = Append(settlements, k)
  /\ UNCHANGED <<chain, buildVars, traceVars, codecVars, balanceVars, detailsVars,
                 ppc, items, concurrency, nextIndex, active, results, promise, startCount>>

\* variant of ThenJob that stores the result at the next free position
ThenJob_ByCompletion ==
  /\ jobs # <<>>
  /\ Head(jobs).stage = "then"
  /\ results' = IF invocations[Head(jobs).index] = "fulfilled"
                THEN [results EXCEPT ![Cardinality({k \in DOMAIN results : results[k] # None}) + 1] =
                        Some(ResultOf(items, Head(jobs).index))]
                ELSE results
  /\ jobs' = Append(Tail(jobs), [stage |-> "catch", index |-> Head(jobs).index])
  /\ UNCHANGED <<chain, buildVars, traceVars, codecVars, balanceVars, detailsVars,
                 ppc, items, concurrency, nextIndex, active, invocations, promise, startCount,
                 settlements>>

\* .then((res) => { results[currentIndex] = res }): a rejection passes through
ThenJob ==
  /\ jobs # <<>>
  /\ Head(jobs).stage = "then"
  /\ results' = IF invocations[Head(jobs).index] = "fulfilled"
                THEN [results EXCEPT ![Head(jobs).index] = Some(ResultOf(items, Head(jobs).index))]
                ELSE results
  /\ jobs' = Append(Tail(jobs), [stage |-> "catch", index |-> Head(jobs).index])
  /\ UNCHANGED <<chain, buildVars, traceVars, codecVars, balanceVars, detailsVars,
                 ppc, items, concurrency, nextIndex, active, invocations, promise, startCount,
                 settlements>>

\* .catch((err) => { reject(err) }): a fulfilment passes through
CatchJob ==
  /\ jobs # <<>>
  /\ Head(jobs).stage = "catch"
  /\ promise' = IF invocations[Head(jobs).index] = "rejected"
                THEN Reject(promise, ErrorOf(Head(jobs).index))
                ELSE promise
  /\ jobs' = Append(Tail(jobs), [stage |-> "finally", index |-> Head(jobs).index])
  /\ UNCHANGED <<chain, buildVars, traceVars, codecVars, balanceVars, detailsVars,
                 ppc, items, concurrency, nextIndex, active, results, invocations, startCount,
                 settlements>>

\* .finally(() => { active -= 1; runNext() })
FinallyJob ==
  /\ jobs # <<>>
  /\ Head(jobs).stage = "finally"
  /\ SetPool(RunNext([Pool EXCEPT !.active = @ - 1]))
  /\ jobs' = Tail(jobs)
  /\ UNCHANGED <<chain, buildVars, traceVars, codecVars, balanceVars, detailsVars,
                 ppc, items, concurrency, settlements>>

PoolNext ==
  \/ PoolStart
  \/ \E k \in DOMAIN invocations : Fulfil(k)
  \/ \E k \in DOMAIN invocations : RejectInvocation(k)
  \/ ThenJob
  \/ CatchJob
  \/ FinallyJob

(***************************************************************************)
(* The item lists and concurrency limits                                   *)
(***************************************************************************)
MaxItems == 3
MaxConcurrency == 2
ItemNames == [k \in 1..MaxItems |-> k + 100]

PoolInit ==
  /\ \E n \in 0..MaxItems :
       /\ items = SubSeq(ItemNames, 1, n)
       /\ results = [k \in 1..n |-> None]
       /\ invocations = [k \in 1..n |-> "notStarted"]
       /\ startCount = [k \in 1..n |-> 0]
  /\ concurrency \in 1..MaxConcurrency
  /\ ppc = "call"
  /\ nextIndex = 0
  /\ active = 0
  /\ jobs = <<>>
  /\ promise = [state |-> "pending", value |-> None]
  /\ settlements = <<>>
  /\ chain = EmptyChain
  /\ BuildIdle
  /\ TraceIdle
  /\ CodecIdle
  /\ BalanceIdle
  /\ DetailsIdle

SpecPool == PoolInit /\ [][PoolNext]_vars

(***************************************************************************)
(* Properties of runWithConcurrency                                        *)
(***************************************************************************)
InFlight == {k \in DOMAIN invocations : invocations[k] = "inFlight"}

\* C23: at every moment at most concurrency invocations of fn are in flight, whatever
\* the order in which they settle; the counter active never exceeds the limit either.
C23_AtMostConcurrencyInFlight ==
  /\ Cardinality(InFlight) <= concurrency
  /\ active <= concurrency

\* the limit is reached again after an invocation settled and the next item started
C23_Witness ==
  /\ concurrency = 2
  /\ Len(items) = 3
  /\ invocations[1] = "inFlight"
  /\ invocations[2] = "rejected"
  /\ invocations[3] = "inFlight"

\* the errors of the invocations that rejected, in the order they rejected
Rejections ==
  [k \in 1..Cardinality({j \in DOMAIN settlements : invocations[settlements[j]] = "rejected"}) |->
     ErrorOf(SelectSeq(settlements, LAMBDA i : invocations[i] = "rejected")[k])]
AllInvocationsSettled == \A k \in DOMAIN invocations : invocations[k] \in {"fulfilled", "rejected"}
\* nothing is in flight and no reaction is due
Quiescent == ppc = "running" /\ InFlight = {} /\ jobs = <<>>
ExpectedResults == [k \in DOMAIN items |-> Some(ResultOf(items, k))]

\* C30: fn is never started twice for an item. The returned promise is resolved only
\* when every invocation has settled and none rejected, each item was started exactly
\* once, and position i of the array holds the result of fn(items[i], i), whatever the
\* completion order; with no items the executor resolves it with the empty array. When
\* an invocation rejected, the promise is not resolved; once the reactions have run it
\* is rejected with the error of the first invocation that rejected, and a rejected
\* promise never changes again. When nothing is left to run the promise is settled.
C30_ResolvesInOrderOrRejectsFirst ==
  /\ [](/\ \A k \in DOMAIN startCount : startCount[k] <= 1
        /\ promise.state = "resolved" =>
             /\ AllInvocationsSettled
             /\ Rejections = <<>>
             /\ \A k \in DOMAIN startCount : startCount[k] = 1
             /\ promise.value = Some(ExpectedResults)
        /\ (ppc = "running" /\ items = <<>>) => promise = [state |-> "resolved", value |-> Some(<<>>)]
        /\ promise.state = "rejected" => Rejections # <<>> /\ promise.value = Some(Rejections[1])
        /\ Quiescent => promise.state = (IF Rejections = <<>> THEN "resolved" ELSE "rejected"))
  /\ [][promise.state = "rejected" => promise' = promise]_vars

\* three items completed in the order 2, 1, 3 and resolved in item order
C30_Witness ==
  /\ promise.state = "resolved"
  /\ settlements = <<2, 1, 3>>
  /\ concurrency = 2
  /\ promise.value = Some(ExpectedResults)

\* a rejection followed by the last resolve(results) call, which changes nothing
C30_RejectedWitness ==
  /\ Quiescent
  /\ Len(items) = 3
  /\ promise = [state |-> "rejected", value |-> Some(ErrorOf(2))]
  /\ Rejections = <<ErrorOf(2), ErrorOf(1)>>
  /\ invocations[3] = "fulfilled"

(***************************************************************************)
(* refreshDetails and the effects that call it                             *)
(*   calls[n] counts the refreshDetails calls that await                   *)
(*   fetchNodeDetails(n); a response belongs to the node the closure of    *)
(*   its call was created for                                              *)
(***************************************************************************)
MaxCalls == 2
Nodes == {"node1", "node2", "node3"}
\* the NodeDetails fetchNodeDetails(n) returns
DetailsOf(n) == [node |-> n]
CallsInFlight == SumSeq([k \in 1..Cardinality(Nodes) |-> calls[SetToSeq(Nodes)[k]]])

\* refreshDetails() of the render in which n is selected, up to its await
StartRefresh(n) ==
  /\ CallsInFlight < MaxCalls
  /\ detailsState' = [status |-> "loading"]
  /\ calls' = [calls EXCEPT ![n] = @ + 1]

\* onClick={() => setSelectedNodeId(n.id)}: the next render has a new refreshDetails, so
\* the effect clears the timeout of the old one and sets its own
SelectNode(n) ==
  /\ selectedNode # Some(n)
  /\ selectedNode' = Some(n)
  /\ pendingTimeout' = Some(n)
  /\ UNCHANGED <<chain, buildVars, traceVars, codecVars, balanceVars, poolVars,
                 details, detailsState, calls>>

\* window.setTimeout(() => { void refreshDetails() }, 0) fires
TimeoutFires ==
  /\ pendingTimeout # None
  /\ StartRefresh(The(pendingTimeout))
  /\ pendingTimeout' = None
  /\ UNCHANGED <<chain, buildVars, traceVars, codecVars, balanceVars, poolVars,
                 selectedNode, details>>

\* onClick={() => void refreshDetails()} (the button is disabled without a selected node)
ManualRefresh ==
  /\ selectedNode # None
  /\ StartRefresh(The(selectedNode))
  /\ UNCHANGED <<chain, buildVars, traceVars, codecVars, balanceVars, poolVars,
                 selectedNode, details, pendingTimeout>>

\* the interval of useInterval fires: autoRefresh is always true
IntervalFires ==
  /\ selectedNode # None
  /\ StartRefresh(The(selectedNode))
  /\ UNCHANGED <<chain, buildVars, traceVars, codecVars, balanceVars, poolVars,
                 selectedNode, details, pendingTimeout>>

\* fetchNodeDetails(n) fulfils: setDetails(next); setDetailsState({ status: 'ready' })
DetailsFetched(n) ==
  /\ calls[n] > 0
  /\ calls' = [calls EXCEPT ![n] = @ - 1]
  /\ details' = Some(DetailsOf(n))
  /\ detailsState' = [status |-> "ready"]
  /\ UNCHANGED <<chain, buildVars, traceVars, codecVars, balanceVars, poolVars,
                 selectedNode, pendingTimeout>>

\* fetchNodeDetails(n) rejects: setDetails(null); setDetailsState({ status: 'error', ... })
DetailsFailed(n) ==
  /\ calls[n] > 0
  /\ calls' = [calls EXCEPT ![n] = @ - 1]
  /\ details' = None
  /\ detailsState' = [status |-> "error"]
  /\ UNCHANGED <<chain, buildVars, traceVars, codecVars, balanceVars, poolVars,
                 selectedNode, pendingTimeout>>

DetailsNext ==
  \/ \E n \in Nodes : SelectNode(n)
  \/ TimeoutFires
  \/ ManualRefresh
  \/ IntervalFires
  \/ \E n \in Nodes : DetailsFetched(n)
  \/ \E n \in Nodes : DetailsFailed(n)

\* the first render: a node is selected and the effect has set its timeout
DetailsInit ==
  /\ selectedNode \in {Some(n) : n \in Nodes}
  /\ pendingTimeout = selectedNode
  /\ details = None
  /\ detailsState = [status |-> "idle"]
  /\ calls = [n \in Nodes |-> 0]
  /\ chain = EmptyChain
  /\ BuildIdle
  /\ TraceIdle
  /\ CodecIdle
  /\ BalanceIdle
  /\ PoolIdle

SpecDetails == DetailsInit /\ [][DetailsNext]_vars

(***************************************************************************)
(* Properties of refreshDetails                                            *)
(***************************************************************************)
\* every refreshDetails call has settled and none is about to start
DetailsSettled == pendingTimeout = None /\ CallsInFlight = 0

\* C29 as claimed: once every refreshDetails call has settled, the details in state
\* are those fetched for the selected node, and no response ever puts the details of
\* a node into state while another node is selected.
C29_DetailsOfSelectedNode ==
  /\ []((DetailsSettled /\ details # None) => The(details).node = The(selectedNode))
  /\ [][(details' # details /\ details' # None) => The(details').node = The(selectedNode')]_vars
====
